---- MODULE Spec2Model ----
(***************************************************************************)
(* Model of kob: the round scheduler (generateRoundsCore, generateRounds   *)
(* and the code around them, src/test.sh) and the rating engine           *)
(* (calculateEloRatings, calculateEnhancedRankings, src/src/elo.ts, with   *)
(* getPlayerEloMap).  Player names are modelled as positive integers; the  *)
(* integer order is the order String.prototype.localeCompare gives the     *)
(* names.  Spec is the specification of the scheduler, SpecRatings the one *)
(* of the rating engine.                                                   *)
(***************************************************************************)
EXTENDS Integers, Sequences, FiniteSets, TLC

(* ---------------------------------------------------------------------- *)
(* Bounds of the model                                                     *)
(* ---------------------------------------------------------------------- *)
MaxPlayers == 12
MaxRounds == 4
MaxCourts == 3
MaxRatedPlayers == 4
MaxSessions == 3
MaxOps == 3

(* ---------------------------------------------------------------------- *)
(* Program constants                                                       *)
(* ---------------------------------------------------------------------- *)
initialRating == 1000

VARIABLES
    pc,                         \* position in generateRoundsCore
    caller, session,            \* who calls generateRoundsCore; generateRounds' session
    players, maxRounds, numCourts, db,   \* the arguments of the call
    sortedPlayers, playerEloMap,
    teammateFrequency, opponentFrequency,
    sessionTeammateFrequency, sessionOpponentFrequency,
    maxPairingFrequency,
    roundIndex, courtIndex, availablePlayers, sets, rounds,
    slotLog,                    \* history: the players of each court in the
                                \* order of their selection, how slots 2-4
                                \* were filled
    callNo, firstRounds         \* history: the call number, the first call's result

VARIABLES
    ratingPc,                   \* position in calculateEloRatings and its callers
    data,                       \* db.data: the players and the sessions
    playerRatings, sortedSessions,
    setIndex,                   \* the set of the replay order that is visited next
    pairLog,                    \* history: the pairwise updates of the last set
    eloRatings,                 \* the table calculateEloRatings returns
    eloMap,                     \* the lookup getPlayerEloMap returns
    rankingInput, enhancedRankings, enhancedAgain,
    replayNo, firstRatings      \* history: the replay number, the first table

VARIABLES
    firstPlayers,               \* history: the roster of the first call
    opCount,                    \* history: the number of operations on the database
    lastOp,                     \* history: the last operation and its session id
    dataBefore                  \* history: db.data before the last operation

schedulerVars ==
    <<pc, caller, session, players, maxRounds, numCourts, db, sortedPlayers,
      playerEloMap, teammateFrequency, opponentFrequency,
      sessionTeammateFrequency, sessionOpponentFrequency, maxPairingFrequency,
      roundIndex, courtIndex, availablePlayers, sets, rounds, slotLog, callNo,
      firstRounds>>

ratingVars ==
    <<ratingPc, data, playerRatings, sortedSessions, setIndex, pairLog,
      eloRatings, eloMap, rankingInput, enhancedRankings, enhancedAgain,
      replayNo, firstRatings>>

callerVars == <<firstPlayers, opCount, lastOp, dataBefore>>

vars == <<schedulerVars, ratingVars, callerVars>>

(* ---------------------------------------------------------------------- *)
(* Helpers                                                                 *)
(* ---------------------------------------------------------------------- *)
Range(s) == {s[i] : i \in 1..Len(s)}

RECURSIVE SumSeq(_)
\* Array.prototype.reduce((sum, x) => sum + x, 0) over the array of numbers s
SumSeq(s) ==
    IF s = <<>> THEN 0 ELSE Head(s) + SumSeq(Tail(s))

\* Array.prototype.sort(cmp): stable; Less(a, b) stands for cmp(a, b) < 0.
\* ("\o <<>>" and "@@ <<>>" leave a value unchanged; they make TLC compute an
\* array or a map once instead of at every use.)
StableSort(s, Less(_, _)) ==
    LET n == Len(s)
        rank == [i \in 1..n |->
                   Cardinality({j \in 1..n :
                       Less(s[j], s[i]) \/ (~Less(s[i], s[j]) /\ j < i)}) + 1] \o <<>>
        perm == [k \in 1..n |-> CHOOSE i \in 1..n : rank[i] = k] \o <<>>
    IN  [k \in 1..n |-> s[perm[k]]] \o <<>>

\* Without, with the filter keeping every element
Without_keepAll(s, x) == s

\* Array.prototype.filter(p => p !== x)
Without(s, x) == SelectSeq(s, LAMBDA p : p # x)

\* Array.prototype.findIndex, 1-based; 0 stands for -1 (not found)
FindIndex(s, Test(_)) ==
    IF \E i \in 1..Len(s) : Test(s[i])
    THEN CHOOSE i \in 1..Len(s) : Test(s[i]) /\ \A j \in 1..(i - 1) : ~Test(s[j])
    ELSE 0

RECURSIVE Pow10(_)
Pow10(n) == IF n = 0 THEN 1 ELSE 10 * Pow10(n - 1)

Abs(x) == IF x < 0 THEN -x ELSE x

\* The key by which the default Array.prototype.sort() orders names (UTF-16
\* code units).  Name 1 stands for a name with a lower-case initial, which
\* localeCompare puts first and the code-unit order puts last.
CodeUnitKey(name) == IF name = 1 THEN MaxPlayers + 2 ELSE name

\* a.localeCompare(b) < 0
LocaleLess(a, b) == a < b

(* ---------------------------------------------------------------------- *)
(* generateRoundsCore: set-up                                              *)
(* ---------------------------------------------------------------------- *)
\* [...players].sort()
SortPlayers(ps) == StableSort(ps, LAMBDA a, b : CodeUnitKey(a) < CodeUnitKey(b))

\* The value standing for "no database argument"
NoDb == [present |-> FALSE, ratings |-> <<>>, matches |-> <<>>]

\* getPlayerEloMap(db): the ratings of the replay for the players with at
\* least 8 matches, the initial rating for every other player of db.players.
\* db.ratings holds the outcome of that lookup; PlayerEloMapOf below computes
\* it from the table of the replay.
GetPlayerEloMap(d) == d.ratings

\* The rating lookup of the call
EloMapOf(d, sorted) ==
    IF d.present THEN GetPlayerEloMap(d)
    ELSE [p \in Range(sorted) |-> initialRating]

\* playerEloMap[p] || DEFAULT_ELO_CONFIG.initialRating
EloOf(map, p) ==
    IF p \in DOMAIN map /\ map[p] # 0 THEN map[p] ELSE initialRating

\* ZeroTable, with the tables of an earlier call kept instead of reset
ZeroTable_stale(sorted) ==
    IF DOMAIN teammateFrequency = Range(sorted) /\ sorted # <<>>
    THEN teammateFrequency
    ELSE [p \in Range(sorted) |-> [q \in Range(sorted) |-> 0]]

\* A frequency table as the nested forEach leaves it: 0 for every pair of
\* distinct roster players.  The entry [p][p] is never written nor read; it
\* is kept at 0 (the code reads a missing entry as "|| 0").
ZeroTable(sorted) == [p \in Range(sorted) |-> [q \in Range(sorted) |-> 0]]

\* Math.ceil((maxRounds * numCourts) / (sortedPlayers.length / 2)).  With an
\* empty roster the quotient is Infinity or NaN; -1 stands for both (the
\* value is only read when a court of 4 players is being filled).
MaxPairingFrequencyOf(r, c, n) ==
    IF n = 0 THEN -1
    ELSE LET num == 2 * r * c
         IN  IF num % n = 0 THEN num \div n ELSE (num \div n) + 1

(* ---------------------------------------------------------------------- *)
(* generateRoundsCore: choosing the four players of a court                *)
(* ---------------------------------------------------------------------- *)
\* TotalFrequency, with the opponent table left out of the sum
TotalFrequency_teammatesOnly(p, avail, tf, of) ==
    SumSeq([i \in 1..Len(avail) |-> IF avail[i] = p THEN 0 ELSE tf[p][avail[i]]])

\* totalFrequency of a player against the other available players
TotalFrequency(p, avail, tf, of) ==
    SumSeq([i \in 1..Len(avail) |->
              IF avail[i] = p THEN 0 ELSE tf[p][avail[i]] + of[p][avail[i]]])

\* PlayerFrequencies, with equal sums left in the order of the caller's
\* roster instead of the order of the names
PlayerFrequencies_rosterOrder(avail, tf, of) ==
    LET totalFrequency ==
            [p \in Range(avail) |-> TotalFrequency(p, avail, tf, of)] @@ <<>>
        at == [p \in Range(players) |-> CHOOSE k \in 1..Len(players) : players[k] = p] @@ <<>>
    IN  StableSort(avail, LAMBDA a, b :
            IF totalFrequency[a] # totalFrequency[b]
            THEN totalFrequency[a] < totalFrequency[b]
            ELSE at[a] < at[b])

\* playerFrequencies after its sort, as the array of the players
PlayerFrequencies(avail, tf, of) ==
    LET totalFrequency ==
            [p \in Range(avail) |-> TotalFrequency(p, avail, tf, of)] @@ <<>>
    IN  StableSort(avail, LAMBDA a, b :
            IF totalFrequency[a] # totalFrequency[b]
            THEN totalFrequency[a] < totalFrequency[b]
            ELSE LocaleLess(a, b))

\* score of a candidate against the players already on the court
PlayerScore(p, court, tf, of, stf, sof) ==
      SumSeq([i \in 1..Len(court) |-> tf[p][court[i]]])
    + SumSeq([i \in 1..Len(court) |-> of[p][court[i]]])
    + SumSeq([i \in 1..Len(court) |-> stf[p][court[i]] * 100])
    + SumSeq([i \in 1..Len(court) |-> sof[p][court[i]] * 50])

\* playerScores after its sort, as the array of the players
PlayerScores(avail, court, tf, of, stf, sof) ==
    LET score == [p \in Range(avail) |-> PlayerScore(p, court, tf, of, stf, sof)] @@ <<>>
    IN  StableSort(avail, LAMBDA a, b :
            IF score[a] # score[b] THEN score[a] < score[b] ELSE LocaleLess(a, b))

\* The test of the first findIndex
FilterA(p, court, tf, stf, sof, maxPF) ==
    \A i \in 1..Len(court) :
        /\ tf[p][court[i]] < maxPF
        /\ stf[p][court[i]] = 0
        /\ sof[p][court[i]] = 0

\* FilterB, without the test of the session teammate count
FilterB_anyTeammate(p, court, tf, stf, sof, maxPF) ==
    \A i \in 1..Len(court) :
        /\ tf[p][court[i]] < maxPF
        /\ sof[p][court[i]] <= 1

\* The test of the second findIndex
FilterB(p, court, tf, stf, sof, maxPF) ==
    \A i \in 1..Len(court) :
        /\ tf[p][court[i]] < maxPF
        /\ stf[p][court[i]] = 0
        /\ sof[p][court[i]] <= 1

\* SelectPlayer, with both findIndex searches left out: the first candidate
\* of playerScores is taken
SelectPlayer_firstCandidate(avail, court, tf, of, stf, sof, maxPF) ==
    [player |-> PlayerScores(avail, court, tf, of, stf, sof)[1], how |-> "F"]

\* One iteration of the loop over slots 2-4: the selected player and the
\* way it was found ("A", "B", or "F" for the fallback to index 0)
SelectPlayer(avail, court, tf, of, stf, sof, maxPF) ==
    LET scores == PlayerScores(avail, court, tf, of, stf, sof)
        ia == FindIndex(scores, LAMBDA p : FilterA(p, court, tf, stf, sof, maxPF))
        ib == FindIndex(scores, LAMBDA p : FilterB(p, court, tf, stf, sof, maxPF))
    IN  IF ia # 0 THEN [player |-> scores[ia], how |-> "A"]
        ELSE IF ib # 0 THEN [player |-> scores[ib], how |-> "B"]
        ELSE [player |-> scores[1], how |-> "F"]

\* courtPlayers after the four selections, with the way slots 2-4 were filled
CourtPlayers(avail, tf, of, stf, sof, maxPF) ==
    LET p1 == PlayerFrequencies(avail, tf, of)[1]
        a1 == Without(avail, p1)
        s2 == SelectPlayer(a1, <<p1>>, tf, of, stf, sof, maxPF)
        a2 == Without(a1, s2.player)
        s3 == SelectPlayer(a2, <<p1, s2.player>>, tf, of, stf, sof, maxPF)
        a3 == Without(a2, s3.player)
        s4 == SelectPlayer(a3, <<p1, s2.player, s3.player>>, tf, of, stf, sof, maxPF)
    IN  [court |-> <<p1, s2.player, s3.player, s4.player>>,
         how |-> <<s2.how, s3.how, s4.how>>,
         avail |-> Without(a3, s4.player)]

(* ---------------------------------------------------------------------- *)
(* generateRoundsCore: forming the two teams                               *)
(* ---------------------------------------------------------------------- *)
\* courtPlayersWithElo after its sort by rating, descending
CourtPlayersWithElo(court, map) ==
    StableSort(court, LAMBDA a, b : EloOf(map, b) - EloOf(map, a) < 0)

\* Combinations, with the three splits listed in the reverse order
Combinations_reversed(ce) ==
    << [t1 |-> <<ce[1], ce[2]>>, t2 |-> <<ce[3], ce[4]>>],
       [t1 |-> <<ce[1], ce[3]>>, t2 |-> <<ce[2], ce[4]>>],
       [t1 |-> <<ce[1], ce[4]>>, t2 |-> <<ce[2], ce[3]>>] >>

\* The three candidate splits, in the order of the source
Combinations(ce) ==
    << [t1 |-> <<ce[1], ce[4]>>, t2 |-> <<ce[2], ce[3]>>],
       [t1 |-> <<ce[1], ce[3]>>, t2 |-> <<ce[2], ce[4]>>],
       [t1 |-> <<ce[1], ce[2]>>, t2 |-> <<ce[3], ce[4]>>] >>

\* sessionOpponentScore of a split
SessionOpponentScore(combo, sof) ==
    SumSeq([k \in 1..4 |->
        LET player1 == combo.t1[((k - 1) \div 2) + 1]
            player2 == combo.t2[((k - 1) % 2) + 1]
        IN  Pow10(sof[player1][player2] + 1)])

\* overallScore of a split
OverallScore(combo, map, tf, stf, sof) ==
    LET histTotalPairingScore ==
            tf[combo.t1[1]][combo.t1[2]] + tf[combo.t2[1]][combo.t2[2]]
        sessTotalPairingScore ==
            stf[combo.t1[1]][combo.t1[2]] + stf[combo.t2[1]][combo.t2[2]]
        team1Elo == EloOf(map, combo.t1[1]) + EloOf(map, combo.t1[2])
        team2Elo == EloOf(map, combo.t2[1]) + EloOf(map, combo.t2[2])
        eloDifference == Abs(team1Elo - team2Elo)
    IN    eloDifference * 200
        + histTotalPairingScore * 1
        + sessTotalPairingScore * 50
        + SessionOpponentScore(combo, sof) * 100

\* teamOptions[0] after the sort by overallScore
BestTeams(court, map, tf, stf, sof) ==
    LET combos == Combinations(CourtPlayersWithElo(court, map))
        score == [k \in 1..3 |-> OverallScore(combos[k], map, tf, stf, sof)]
        order == StableSort(<<1, 2, 3>>, LAMBDA a, b : score[a] - score[b] < 0)
    IN  combos[order[1]]

(* ---------------------------------------------------------------------- *)
(* generateRoundsCore: committing the teams                                *)
(* ---------------------------------------------------------------------- *)
\* table[a][b]++
Bump(table, a, b) == [table EXCEPT ![a][b] = @ + 1]

\* CommitTeammates, with only the direction [player][teammate] of the
\* first player of each team written
CommitTeammates_oneWay(table, team1, team2) ==
    Bump(Bump(table, team1[1], team1[2]), team2[1], team2[2])

\* The teammate updates of the two forEach loops over team1 and team2: for
\* each player of a team and each teammate other than the player itself
CommitTeammates(table, team1, team2) ==
    LET BumpTeam(t, team) ==
            LET u1 == IF team[1] # team[2] THEN Bump(t, team[1], team[2]) ELSE t
            IN  IF team[2] # team[1] THEN Bump(u1, team[2], team[1]) ELSE u1
    IN  BumpTeam(BumpTeam(table, team1), team2)

\* The opponent updates: only the loop over team1 writes them; the matching
\* statements of the loop over team2 are commented out
CommitOpponents(table, team1, team2) ==
    Bump(Bump(Bump(Bump(table, team1[1], team2[1]), team1[1], team2[2]),
              team1[2], team2[1]), team1[2], team2[2])

\* MakeSet, with the id and the court number counted from 0 as the loop
\* indexes are
MakeSet_zeroBased(ri, ci, team1, team2) ==
    [id |-> <<ri, ci>>,
     court |-> ci,
     teams |-> << [team |-> [players |-> team1], points |-> 0],
                  [team |-> [players |-> team2], points |-> 0] >>]

\* MakeSet, with the fourth player of the court left out of the set
MakeSet_shortTeam(ri, ci, team1, team2) ==
    [id |-> <<ri + 1, ci + 1>>,
     court |-> ci + 1,
     teams |-> << [team |-> [players |-> team1], points |-> 0],
                  [team |-> [players |-> <<team2[1]>>], points |-> 0] >>]

\* The KOBSet pushed for a court; the id `${roundIndex + 1}-${courtIndex + 1}`
\* is kept as the pair of its two numbers
MakeSet(ri, ci, team1, team2) ==
    [id |-> <<ri + 1, ci + 1>>,
     court |-> ci + 1,
     teams |-> << [team |-> [players |-> team1], points |-> 0],
                  [team |-> [players |-> team2], points |-> 0] >>]

\* The Round pushed at the end of a round; the id `round-${roundIndex + 1}`
\* is kept as its prefix and its number
MakeRound(ri, ss) == [id |-> <<"round", ri + 1>>, sets |-> ss]

(* ---------------------------------------------------------------------- *)
(* Inputs                                                                  *)
(* ---------------------------------------------------------------------- *)
EloValues == {initialRating, initialRating + 16}

Ascending(n) == [i \in 1..n |-> i]
Descending(n) == [i \in 1..n |-> n + 1 - i]

\* The rosters (arrays of unique names): in both orders up to MaxRatedPlayers
\* players, in descending order above
Rosters ==
    UNION {IF n <= MaxRatedPlayers THEN {Ascending(n), Descending(n)}
           ELSE {Descending(n)} : n \in 0..MaxPlayers}

\* Historical matches held by the database (the teams of played sets)
Histories == {<<>>, << [t1 |-> <<1, 2>>, t2 |-> <<3, 4>>] >>}

FlatElo(ps) == [p \in Range(ps) |-> initialRating]

\* The rating lookups a database can give: every map over EloValues up to
\* MaxRatedPlayers players, two maps above
EloMaps(ps) ==
    IF Len(ps) <= MaxRatedPlayers
    THEN [Range(ps) -> EloValues]
    ELSE {FlatElo(ps),
          [p \in Range(ps) |-> IF p % 2 = 0 THEN initialRating + 16 ELSE initialRating]}

\* The db arguments: none, or a database with its historical matches and the
\* rating lookup they give (a rating other than the initial one needs history)
Dbs(ps) ==
    {NoDb}
    \cup {d \in [present : {TRUE}, ratings : EloMaps(ps), matches : Histories] :
              d.matches # <<>> \/ d.ratings = FlatElo(ps)}

\* generateRounds: const maxRounds = 4
sessionRounds == 4

\* NumCourtsOf, rounded up instead of down
NumCourtsOf_ceil(numPlayers) == (numPlayers + 3) \div 4

\* generateRounds: numCourts = Math.floor(numPlayers / 4)
NumCourtsOf(numPlayers) == numPlayers \div 4

\* No session: generateRoundsCore is called directly
NoSession == [id |-> <<>>, players |-> <<>>, rounds |-> <<>>]

\* The session generateRounds finds: its players are the roster, its rounds
\* are empty (createSession) or left by an earlier generation
Sessions(ps) ==
    [id : {<<2025, 5, 2>>}, players : {ps}, rounds : {<<>>, <<MakeRound(0, <<>>)>>}]

\* session.rounds = rounds, seen through db.data: session is the first
\* session of db.data.sessions with its id (Array.prototype.find)
WithRounds(d, id, rs) ==
    LET found == {k \in 1..Len(d.sessions) : d.sessions[k].id = id}
    IN  [d EXCEPT !.sessions =
            [k \in 1..Len(d.sessions) |->
                IF found # {} /\ k = CHOOSE m \in found : \A n \in found : m <= n
                THEN [d.sessions[k] EXCEPT !.rounds = rs]
                ELSE d.sessions[k]]]

(* ---------------------------------------------------------------------- *)
(* The state machine                                                       *)
(* ---------------------------------------------------------------------- *)
\* No operation on the database has been performed
NoData == [players |-> <<>>, sessions |-> <<>>]
NoOp == [op |-> "none", id |-> <<>>]

CallerIdle ==
    /\ firstPlayers = <<>>
    /\ opCount = 0
    /\ lastOp = NoOp
    /\ dataBefore = NoData

\* No rating calculation is running
RatingsOff ==
    /\ ratingPc = "off"
    /\ playerRatings = <<>>
    /\ sortedSessions = <<>>
    /\ setIndex = 0
    /\ pairLog = <<>>
    /\ eloRatings = <<>>
    /\ eloMap = <<>>
    /\ rankingInput = <<>>
    /\ enhancedRankings = <<>>
    /\ enhancedAgain = <<>>
    /\ replayNo = 0
    /\ firstRatings = <<>>

RatingsIdle ==
    /\ RatingsOff
    /\ data = NoData

\* The tables and cursors of generateRoundsCore before its set-up
CoreFresh ==
    /\ sortedPlayers = <<>>
    /\ playerEloMap = <<>>
    /\ teammateFrequency = <<>>
    /\ opponentFrequency = <<>>
    /\ sessionTeammateFrequency = <<>>
    /\ sessionOpponentFrequency = <<>>
    /\ maxPairingFrequency = 0
    /\ roundIndex = 0
    /\ courtIndex = 0
    /\ availablePlayers = <<>>
    /\ sets = <<>>
    /\ rounds = <<>>
    /\ slotLog = <<>>
    /\ callNo = 1
    /\ firstRounds = <<>>

\* generateRoundsCore is entered, either by a caller that chooses the
\* arguments or by generateRounds, which takes them from the session
Init ==
    /\ pc = "call"
    /\ caller \in {"core", "generateRounds"}
    /\ players \in Rosters
    /\ db \in Dbs(players)
    /\ IF caller = "generateRounds"
       THEN /\ session \in Sessions(players)
            /\ data = [players |-> players, sessions |-> <<session>>]
            /\ db.present
            /\ maxRounds = sessionRounds
            /\ numCourts = NumCourtsOf(Len(players))
       ELSE /\ session = NoSession
            /\ data = NoData
            /\ maxRounds \in 0..MaxRounds
            /\ numCourts \in 0..MaxCourts
    /\ CoreFresh
    /\ RatingsOff
    /\ CallerIdle

\* Setup, with the global teammate table seeded from the teams of the
\* database's played sets instead of zeroed
Setup_seeded ==
    /\ rounds' = <<>>
    /\ sortedPlayers' = SortPlayers(players)
    /\ playerEloMap' = EloMapOf(db, sortedPlayers')
    /\ teammateFrequency' =
           IF /\ db.present
              /\ db.matches # <<>>
              /\ Range(db.matches[1].t1) \cup Range(db.matches[1].t2)
                     \subseteq Range(players)
           THEN CommitTeammates(ZeroTable(sortedPlayers'),
                                db.matches[1].t1, db.matches[1].t2)
           ELSE ZeroTable(sortedPlayers')
    /\ opponentFrequency' = ZeroTable(sortedPlayers')
    /\ sessionTeammateFrequency' = ZeroTable(sortedPlayers')
    /\ sessionOpponentFrequency' = ZeroTable(sortedPlayers')
    /\ maxPairingFrequency' =
           MaxPairingFrequencyOf(maxRounds, numCourts, Len(sortedPlayers'))
    /\ roundIndex' = 0
    /\ courtIndex' = 0
    /\ availablePlayers' = <<>>
    /\ sets' = <<>>
    /\ slotLog' = <<>>
    /\ pc' = "round"
    /\ UNCHANGED <<ratingVars, callerVars, caller, session,
                   players, maxRounds, numCourts, db, callNo, firstRounds>>

\* generateRoundsCore from the sort of the roster to the head of the loop
\* over the rounds
Setup ==
    /\ rounds' = <<>>
    /\ sortedPlayers' = SortPlayers(players)
    /\ playerEloMap' = EloMapOf(db, sortedPlayers')
    /\ teammateFrequency' = ZeroTable(sortedPlayers')
    /\ opponentFrequency' = ZeroTable(sortedPlayers')
    /\ sessionTeammateFrequency' = ZeroTable(sortedPlayers')
    /\ sessionOpponentFrequency' = ZeroTable(sortedPlayers')
    /\ maxPairingFrequency' =
           MaxPairingFrequencyOf(maxRounds, numCourts, Len(sortedPlayers'))
    /\ roundIndex' = 0
    /\ courtIndex' = 0
    /\ availablePlayers' = <<>>
    /\ sets' = <<>>
    /\ slotLog' = <<>>
    /\ pc' = "round"
    /\ UNCHANGED <<ratingVars, callerVars, caller, session,
                   players, maxRounds, numCourts, db, callNo, firstRounds>>

\* generateRoundsCore with numCourts !== 0, up to the head of the loop
Enter ==
    /\ pc = "call"
    /\ numCourts # 0
    /\ Setup

\* The early return of generateRoundsCore: the empty rounds array
ReturnEmpty ==
    /\ rounds' = <<>>
    /\ slotLog' = <<>>
    /\ pc' = "done"
    /\ UNCHANGED <<ratingVars, callerVars, caller, session,
                   players, maxRounds, numCourts, db, sortedPlayers,
                   playerEloMap, teammateFrequency, opponentFrequency,
                   sessionTeammateFrequency, sessionOpponentFrequency,
                   maxPairingFrequency, roundIndex, courtIndex,
                   availablePlayers, sets, callNo, firstRounds>>

\* EnterNoCourts, with the early return missing
EnterNoCourts_noReturn ==
    /\ pc = "call"
    /\ numCourts = 0
    /\ Setup

\* generateRoundsCore with numCourts === 0
EnterNoCourts ==
    /\ pc = "call"
    /\ numCourts = 0
    /\ ReturnEmpty

\* BeginRound, with the available players of the first round kept for the
\* later rounds instead of reset to the roster
BeginRound_keepAvailable ==
    /\ pc = "round"
    /\ roundIndex < maxRounds
    /\ sets' = <<>>
    /\ availablePlayers' = IF roundIndex = 0 THEN sortedPlayers ELSE availablePlayers
    /\ courtIndex' = 0
    /\ pc' = "court"
    /\ UNCHANGED <<ratingVars, callerVars, caller, session,
                   players, maxRounds, numCourts, db, sortedPlayers,
                   playerEloMap, teammateFrequency, opponentFrequency,
                   sessionTeammateFrequency, sessionOpponentFrequency,
                   maxPairingFrequency, roundIndex, rounds, slotLog, callNo,
                   firstRounds>>

\* The head of the loop over the rounds, roundIndex < maxRounds
BeginRound ==
    /\ pc = "round"
    /\ roundIndex < maxRounds
    /\ sets' = <<>>
    /\ availablePlayers' = sortedPlayers
    /\ courtIndex' = 0
    /\ pc' = "court"
    /\ UNCHANGED <<ratingVars, callerVars, caller, session,
                   players, maxRounds, numCourts, db, sortedPlayers,
                   playerEloMap, teammateFrequency, opponentFrequency,
                   sessionTeammateFrequency, sessionOpponentFrequency,
                   maxPairingFrequency, roundIndex, rounds, slotLog, callNo,
                   firstRounds>>

\* SkipCourt, with the generation aborted instead of the court skipped
SkipCourt_abort ==
    /\ pc = "court"
    /\ courtIndex < numCourts
    /\ Len(availablePlayers) < 4
    /\ pc' = "done"
    /\ UNCHANGED <<ratingVars, callerVars, caller, session,
                   players, maxRounds, numCourts, db, sortedPlayers,
                   playerEloMap, teammateFrequency, opponentFrequency,
                   sessionTeammateFrequency, sessionOpponentFrequency,
                   maxPairingFrequency, roundIndex, courtIndex,
                   availablePlayers, sets, rounds, slotLog, callNo,
                   firstRounds>>

\* One iteration of the loop over the courts with fewer than 4 players left
SkipCourt ==
    /\ pc = "court"
    /\ courtIndex < numCourts
    /\ Len(availablePlayers) < 4
    /\ courtIndex' = courtIndex + 1
    /\ UNCHANGED <<ratingVars, callerVars, caller, session,
                   pc, players, maxRounds, numCourts, db, sortedPlayers,
                   playerEloMap, teammateFrequency, opponentFrequency,
                   sessionTeammateFrequency, sessionOpponentFrequency,
                   maxPairingFrequency, roundIndex, availablePlayers, sets,
                   rounds, slotLog, callNo, firstRounds>>

\* One iteration of the loop over the courts that forms a set
FillCourt ==
    /\ pc = "court"
    /\ courtIndex < numCourts
    /\ Len(availablePlayers) >= 4
    /\ \E sel \in {CourtPlayers(availablePlayers, teammateFrequency,
                               opponentFrequency, sessionTeammateFrequency,
                               sessionOpponentFrequency, maxPairingFrequency)} :
       \E best \in {BestTeams(sel.court, playerEloMap, teammateFrequency,
                             sessionTeammateFrequency, sessionOpponentFrequency)} :
           /\ availablePlayers' = sel.avail
           /\ teammateFrequency' = CommitTeammates(teammateFrequency, best.t1, best.t2)
           /\ sessionTeammateFrequency' =
                  CommitTeammates(sessionTeammateFrequency, best.t1, best.t2)
           /\ opponentFrequency' = CommitOpponents(opponentFrequency, best.t1, best.t2)
           /\ sessionOpponentFrequency' =
                  CommitOpponents(sessionOpponentFrequency, best.t1, best.t2)
           /\ sets' = Append(sets, MakeSet(roundIndex, courtIndex, best.t1, best.t2))
           /\ slotLog' = Append(slotLog,
                  [court |-> sel.court,
                   how |-> sel.how,
                   repeat |-> \/ sessionTeammateFrequency[best.t1[1]][best.t1[2]] >= 1
                              \/ sessionTeammateFrequency[best.t2[1]][best.t2[2]] >= 1])
    /\ courtIndex' = courtIndex + 1
    /\ UNCHANGED <<ratingVars, callerVars, caller, session,
                   pc, players, maxRounds, numCourts, db, sortedPlayers,
                   playerEloMap, maxPairingFrequency, roundIndex, rounds,
                   callNo, firstRounds>>

\* The end of the loop over the courts: the round is pushed
EndRound ==
    /\ pc = "court"
    /\ courtIndex >= numCourts
    /\ rounds' = Append(rounds, MakeRound(roundIndex, sets))
    /\ roundIndex' = roundIndex + 1
    /\ pc' = "round"
    /\ UNCHANGED <<ratingVars, callerVars, caller, session,
                   players, maxRounds, numCourts, db, sortedPlayers,
                   playerEloMap, teammateFrequency, opponentFrequency,
                   sessionTeammateFrequency, sessionOpponentFrequency,
                   maxPairingFrequency, courtIndex, availablePlayers, sets,
                   slotLog, callNo, firstRounds>>

\* The end of the loop over the rounds: return rounds
Return ==
    /\ pc = "round"
    /\ roundIndex >= maxRounds
    /\ pc' = "done"
    /\ UNCHANGED <<ratingVars, callerVars, caller, session,
                   players, maxRounds, numCourts, db, sortedPlayers,
                   playerEloMap, teammateFrequency, opponentFrequency,
                   sessionTeammateFrequency, sessionOpponentFrequency,
                   maxPairingFrequency, roundIndex, courtIndex,
                   availablePlayers, sets, rounds, slotLog, callNo,
                   firstRounds>>

\* The caller keeps the returned schedule and calls generateRoundsCore a
\* second time with the same arguments
CallAgain ==
    /\ pc = "done"
    /\ caller = "core"
    /\ callNo = 1
    /\ firstRounds' = rounds
    /\ callNo' = 2
    /\ pc' = "call"
    /\ UNCHANGED <<ratingVars, callerVars, caller, session,
                   players, maxRounds, numCourts, db, sortedPlayers,
                   playerEloMap, teammateFrequency, opponentFrequency,
                   sessionTeammateFrequency, sessionOpponentFrequency,
                   maxPairingFrequency, roundIndex, courtIndex,
                   availablePlayers, sets, rounds, slotLog>>

\* The roster in other orders: reversed, rotated by one place, with its
\* first two names exchanged
Reordered(ps) ==
    LET n == Len(ps)
    IN  {[k \in 1..n |-> ps[n + 1 - k]],
         [k \in 1..n |-> ps[(k % n) + 1]],
         [k \in 1..n |-> IF k = 1 /\ n >= 2 THEN ps[2]
                         ELSE IF k = 2 THEN ps[1] ELSE ps[k]]} \ {ps}

\* The caller keeps the returned schedule and calls generateRoundsCore a
\* second time with the same players in another order
CallReordered ==
    /\ pc = "done"
    /\ caller = "core"
    /\ callNo = 1
    /\ players' \in Reordered(players)
    /\ firstPlayers' = players
    /\ firstRounds' = rounds
    /\ callNo' = 2
    /\ pc' = "call"
    /\ UNCHANGED <<ratingVars, opCount, lastOp, dataBefore, caller, session,
                   maxRounds, numCourts, db, sortedPlayers,
                   playerEloMap, teammateFrequency, opponentFrequency,
                   sessionTeammateFrequency, sessionOpponentFrequency,
                   maxPairingFrequency, roundIndex, courtIndex,
                   availablePlayers, sets, rounds, slotLog>>

\* StoreRounds, with the new rounds pushed after the rounds the session had
StoreRounds_append ==
    /\ pc = "done"
    /\ caller = "generateRounds"
    /\ session' = [session EXCEPT !.rounds = @ \o rounds]
    /\ data' = WithRounds(data, session.id, session.rounds \o rounds)
    /\ pc' = "stored"
    /\ UNCHANGED <<ratingPc, playerRatings, sortedSessions, setIndex, pairLog,
                   eloRatings, eloMap, rankingInput, enhancedRankings,
                   enhancedAgain, replayNo, firstRatings, callerVars,
                   caller, players, maxRounds, numCourts, db,
                   sortedPlayers, playerEloMap, teammateFrequency,
                   opponentFrequency, sessionTeammateFrequency,
                   sessionOpponentFrequency, maxPairingFrequency, roundIndex,
                   courtIndex, availablePlayers, sets, rounds, slotLog, callNo,
                   firstRounds>>

\* generateRounds after generateRoundsCore has returned: session.rounds =
\* rounds, and the database is written
StoreRounds ==
    /\ pc = "done"
    /\ caller = "generateRounds"
    /\ session' = [session EXCEPT !.rounds = rounds]
    /\ data' = WithRounds(data, session.id, rounds)
    /\ pc' = "stored"
    /\ UNCHANGED <<ratingPc, playerRatings, sortedSessions, setIndex, pairLog,
                   eloRatings, eloMap, rankingInput, enhancedRankings,
                   enhancedAgain, replayNo, firstRatings, callerVars,
                   caller, players, maxRounds, numCourts, db,
                   sortedPlayers, playerEloMap, teammateFrequency,
                   opponentFrequency, sessionTeammateFrequency,
                   sessionOpponentFrequency, maxPairingFrequency, roundIndex,
                   courtIndex, availablePlayers, sets, rounds, slotLog, callNo,
                   firstRounds>>

Next ==
    \/ EnterNoCourts
    \/ Enter
    \/ BeginRound
    \/ SkipCourt
    \/ FillCourt
    \/ EndRound
    \/ Return
    \/ CallAgain
    \/ StoreRounds

Spec == Init /\ [][Next]_vars

\* generateRoundsCore called twice by a caller that reorders the roster
InitReorder == Init /\ caller = "core"

NextReorder ==
    \/ EnterNoCourts
    \/ Enter
    \/ BeginRound
    \/ SkipCourt
    \/ FillCourt
    \/ EndRound
    \/ Return
    \/ CallReordered

SpecReorder == InitReorder /\ [][NextReorder]_vars

(* ---------------------------------------------------------------------- *)
(* Observations on the returned schedule                                   *)
(* ---------------------------------------------------------------------- *)
Returned == pc = "done"

\* The sets of a schedule, round after round
AllSets(rs) == UNION {Range(rs[r].sets) : r \in 1..Len(rs)}

\* The players of a set, team by team
Team1(set) == set.teams[1].team.players
Team2(set) == set.teams[2].team.players
SetPlayers(set) == Range(Team1(set)) \cup Range(Team2(set))

WellFormedSet(set) ==
    /\ Len(set.teams) = 2
    /\ Len(Team1(set)) = 2
    /\ Len(Team2(set)) = 2
    /\ Cardinality(SetPlayers(set)) = 4


\* The number of sets of a schedule in which a and b are on the same team
TeammateSets(rs, a, b) ==
    Cardinality({set \in AllSets(rs) :
                    {a, b} = Range(Team1(set)) \/ {a, b} = Range(Team2(set))})

\* The number of player-slots of a schedule that hold player p
SlotCount(rs, p) ==
    Cardinality({slot \in AllSets(rs) \X {1, 2} \X {1, 2} :
                    Len(slot[1].teams[slot[2]].team.players) >= slot[3]
                    /\ slot[1].teams[slot[2]].team.players[slot[3]] = p})

\* The number of player-slots of a schedule
TotalSlots(rs) ==
    Cardinality({slot \in AllSets(rs) \X {1, 2} \X {1, 2} :
                    Len(slot[1].teams[slot[2]].team.players) >= slot[3]})

\* The pairing counts of the historical matches, as displayPairingStats
\* counts them
PairingTeammates(matches, a, b) ==
    Cardinality({k \in 1..Len(matches) :
                    {a, b} = Range(matches[k].t1) \/ {a, b} = Range(matches[k].t2)})

PairingOpponents(matches, a, b) ==
    Cardinality({k \in 1..Len(matches) :
                    \/ a \in Range(matches[k].t1) /\ b \in Range(matches[k].t2)
                    \/ a \in Range(matches[k].t2) /\ b \in Range(matches[k].t1)})

\* The tables exist: the call is past its set-up
Generating == pc \in {"round", "court"} \/ (pc = "done" /\ numCourts # 0)

Roster == Range(players)

\* The scenario of test.sh: 12 players, 4 rounds, 3 courts, no history
TwelveNoHistory ==
    /\ Len(players) = 12
    /\ maxRounds = 4
    /\ numCourts = 3
    /\ db.matches = <<>>

(* ---------------------------------------------------------------------- *)
(* Claims                                                                  *)
(* ---------------------------------------------------------------------- *)

\* C1: with C >= 1 and N >= 4*C the returned schedule has exactly R rounds,
\* each round exactly C sets, each set exactly 2 teams of exactly 2 players,
\* and the 4 players of a set are pairwise distinct.
C1_FullSchedule ==
    (Returned /\ numCourts >= 1 /\ Len(players) >= 4 * numCourts) =>
        /\ Len(rounds) = maxRounds
        /\ \A r \in 1..Len(rounds) :
              /\ Len(rounds[r].sets) = numCourts
              /\ \A c \in 1..Len(rounds[r].sets) : WellFormedSet(rounds[r].sets[c])

C1_Witness ==
    /\ Returned
    /\ numCourts >= 2
    /\ maxRounds >= 2
    /\ Len(players) >= 4 * numCourts
    /\ Len(rounds) = maxRounds

C6_NoCourtsEmpty ==
    (Returned /\ numCourts = 0) => rounds = <<>>

C6_Witness ==
    /\ Returned
    /\ numCourts = 0
    /\ maxRounds >= 1
    /\ Len(players) >= 4

\* C7: with C >= 1 and N < 4*C the call still returns exactly R rounds, each
\* holding exactly floor(N/4) sets, on the courts 1..floor(N/4).
C7_PartialSchedule ==
    (Returned /\ numCourts >= 1 /\ Len(players) < 4 * numCourts) =>
        /\ Len(rounds) = maxRounds
        /\ \A r \in 1..Len(rounds) :
              /\ Len(rounds[r].sets) = Len(players) \div 4
              /\ \A c \in 1..Len(rounds[r].sets) : rounds[r].sets[c].court = c

C7_Witness ==
    /\ Returned
    /\ numCourts >= 2
    /\ Len(players) < 4 * numCourts
    /\ Len(players) >= 4
    /\ maxRounds >= 2
    /\ Len(rounds) = maxRounds
    /\ Len(rounds[1].sets) = 1

\* C3: whenever a court puts two players on one team although their session
\* teammate count is already >= 1, one of the slots 2-4 of that court was
\* filled by the fallback; and while no slot of the call has been filled by
\* the fallback, no pair has been session teammates more than once.
C3_RepeatOnlyAfterFallback ==
    Generating =>
        /\ \A k \in 1..Len(slotLog) :
              slotLog[k].repeat => "F" \in Range(slotLog[k].how)
        /\ (\A k \in 1..Len(slotLog) : "F" \notin Range(slotLog[k].how)) =>
              \A a, b \in Roster :
                  a # b => /\ sessionTeammateFrequency[a][b] <= 1
                           /\ TeammateSets(Append(rounds, MakeRound(roundIndex, sets)), a, b) <= 1

C3_Witness ==
    /\ Generating
    /\ \E k \in 1..Len(slotLog) :
          slotLog[k].repeat /\ "F" \in Range(slotLog[k].how)
    /\ \E a, b \in Roster : a # b /\ sessionTeammateFrequency[a][b] >= 2

\* C4: 12 distinct names, R = 4, C = 3, no history: no pair of players is on
\* the same team in more than one set of the returned schedule.
C4_TwelveNoTeammateRepeat ==
    (Returned /\ TwelveNoHistory) =>
        \A a, b \in Roster : a # b => TeammateSets(rounds, a, b) <= 1

\* C5 as stated: 12 distinct names, R = 4, C = 3, no history: the schedule
\* has 48 player-slots and each of the 12 players is in exactly 16 of them.
C5_SixteenSlotsEach ==
    (Returned /\ TwelveNoHistory) =>
        /\ TotalSlots(rounds) = 48
        /\ \A p \in Roster : SlotCount(rounds, p) = 16

\* C5 amended: 12 distinct names, R = 4, C = 3, no history: the schedule has
\* 48 player-slots and each of the 12 players is in exactly 4 of them (one
\* per round).
C5_FourSlotsEach ==
    (Returned /\ TwelveNoHistory) =>
        /\ TotalSlots(rounds) = 48
        /\ \A p \in Roster : SlotCount(rounds, p) = 4

C5_Witness ==
    /\ Returned
    /\ TwelveNoHistory
    /\ TotalSlots(rounds) = 48
    /\ callNo = 1

\* The teammate tables are symmetric
TeammatesSymmetric ==
    Generating =>
        \A a, b \in Roster :
            a # b => /\ teammateFrequency[a][b] = teammateFrequency[b][a]
                     /\ sessionTeammateFrequency[a][b] = sessionTeammateFrequency[b][a]

\* A step that commits a court
CommitsCourt == pc = "court" /\ Len(sets') = Len(sets) + 1

\* The step raises both directions of the two teammate pairs of the new set
\* by exactly 1 and leaves every other teammate entry unchanged
TeammateDelta ==
    LET set == sets'[Len(sets')]
        inc(a, b) == IF {a, b} = Range(Team1(set)) \/ {a, b} = Range(Team2(set))
                     THEN 1 ELSE 0
    IN  \A a, b \in Roster :
            a # b => /\ teammateFrequency'[a][b] = teammateFrequency[a][b] + inc(a, b)
                     /\ sessionTeammateFrequency'[a][b] =
                            sessionTeammateFrequency[a][b] + inc(a, b)

\* C8: in every state of a call the teammate tables are symmetric, and
\* committing a court raises both directions of each of the two teammate
\* pairs by exactly 1 and leaves every other teammate entry unchanged.
C8_TeammatesSymmetric ==
    /\ []TeammatesSymmetric
    /\ [][CommitsCourt => TeammateDelta]_vars

C8_Witness ==
    /\ pc = "court"
    /\ Len(sets) >= 2
    /\ roundIndex >= 1
    /\ \E a, b \in Roster : a # b /\ teammateFrequency[a][b] >= 1

\* C9 as stated: committing a court raises both directions of every
\* cross-team pair in the global and the session opponent table, so the
\* opponent tables are symmetric in every reachable state.
C9_OpponentsSymmetric ==
    Generating =>
        \A a, b \in Roster :
            a # b => /\ opponentFrequency[a][b] = opponentFrequency[b][a]
                     /\ sessionOpponentFrequency[a][b] = sessionOpponentFrequency[b][a]

\* C10 as stated: at the start of generation the global tables hold the
\* pairing counts of the historical matches of the database (all zero
\* without history) and the session tables are all zero.
C10_SeededFromHistory ==
    (pc = "round" /\ roundIndex = 0) =>
        \A a, b \in Roster :
            a # b => /\ teammateFrequency[a][b] = PairingTeammates(db.matches, a, b)
                     /\ opponentFrequency[a][b] = PairingOpponents(db.matches, a, b)
                     /\ sessionTeammateFrequency[a][b] = 0
                     /\ sessionOpponentFrequency[a][b] = 0

\* a and b have been on opposite teams in an earlier set of this call
SessionOpponents(a, b) ==
    \E set \in AllSets(rounds) \cup Range(sets) :
        \/ a \in Range(Team1(set)) /\ b \in Range(Team2(set))
        \/ a \in Range(Team2(set)) /\ b \in Range(Team1(set))

\* The split of the four players with team t has a cross-team pair that has
\* already been session opponents
SplitRematch(four, t) ==
    \E a \in t, b \in four \ t : SessionOpponents(a, b)

\* The split chosen for the new set has such a pair only if each of the three
\* splits of its four players has one
NoAvoidableRematch ==
    LET set == sets'[Len(sets')]
        four == SetPlayers(set)
    IN  SplitRematch(four, Range(Team1(set))) =>
            \A t \in {u \in SUBSET four : Cardinality(u) = 2} : SplitRematch(four, t)

\* C11 as stated: for any four chosen players and any ratings, the chosen
\* split never contains a cross-team pair that has already been session
\* opponents when one of the other two candidate splits contains no such pair.
C11_OpponentPenaltyDominates ==
    [][CommitsCourt => NoAvoidableRematch]_vars

\* generateRounds has stored the schedule in the session
Stored == pc = "stored"

\* The number of sets of a schedule
SetCount(rs) == SumSeq([r \in 1..Len(rs) |-> Len(rs[r].sets)])

\* C12: generateRounds for a session with N players calls the generation
\* with floor(N/4) courts and 4 rounds; the session then holds 4 rounds of
\* floor(N/4) sets each, 4*floor(N/4) sets in all, when N >= 4, and no
\* rounds at all when N < 4.
C12_SessionSchedule ==
    Stored =>
        LET n == Len(session.players)
        IN  /\ numCourts = n \div 4
            /\ maxRounds = 4
            /\ n < 4 => session.rounds = <<>>
            /\ n >= 4 =>
                  /\ Len(session.rounds) = 4
                  /\ \A r \in 1..4 : Len(session.rounds[r].sets) = n \div 4
                  /\ SetCount(session.rounds) = 4 * (n \div 4)
                  /\ Cardinality(AllSets(session.rounds)) = 4 * (n \div 4)

C12_Witness ==
    /\ Stored
    /\ Len(session.players) = 12
    /\ SetCount(session.rounds) = 12

\* generateRounds has emptied the rounds of a session of fewer than 4 players
C12_WitnessEmptied ==
    /\ Stored
    /\ Len(session.players) \in 1..3
    /\ session.rounds = <<>>
    /\ db.matches # <<>>

(* ---------------------------------------------------------------------- *)
(* The rating engine (src/src/elo.ts).  A real number x of the source is   *)
(* kept as the integer floor(x * Micro); ratings, points and counts are    *)
(* integers in the source and are kept as they are.                        *)
(* ---------------------------------------------------------------------- *)
Micro == 1000000

\* DEFAULT_ELO_CONFIG
kFactor == 32
kFactorMin == 16
\* Math.exp(-kFactorDecay) for kFactorDecay = 0.1
kFactorDecayExp == 904837
\* pointDiffWeight = 0.01
pointDiffWeight == 10000

\* The matches a player needs to be in the table
minMatches == 8

Max(a, b) == IF a >= b THEN a ELSE b
Min(a, b) == IF a <= b THEN a ELSE b

\* x * y of two non-negative reals, the product split to stay in 32 bits
MulMicro(x, y) ==
    LET x1 == x \div 1000
        x0 == x % 1000
        y1 == y \div 1000
        y0 == y % 1000
    IN  x1 * y1 + (x1 * y0 + x0 * y1) \div 1000 + (x0 * y0) \div Micro

\* x * y of two reals of any sign
Mul(x, y) ==
    IF (x < 0) = (y < 0) THEN MulMicro(Abs(x), Abs(y))
    ELSE -MulMicro(Abs(x), Abs(y))

\* The first k decimals of r / den, for 0 <= r <= den: floor(10^k * r / den)
RECURSIVE LongDiv(_, _, _)
LongDiv(r, den, k) ==
    IF k = 0 THEN 0
    ELSE ((r * 10) \div den) * Pow10(k - 1) + LongDiv((r * 10) % den, den, k - 1)

\* a / b of two integers as a real, b > 0
Div(a, b) ==
    IF a >= 0 THEN (a \div b) * Micro + LongDiv(a % b, b, 6)
    ELSE -(((-a) \div b) * Micro + LongDiv((-a) % b, b, 6))

\* Math.round: the integer nearest to the real y, halves rounded up
Round(y) == (y + Micro \div 2) \div Micro

\* Math.pow(10, 2^(j-1) / 400), j = 1..9
PowerTable ==
    <<1005773, 1011579, 1023293, 1047129, 1096478, 1202264, 1445440,
      2089296, 4365158>>

\* Math.pow(10, n / 400) for an integer n >= 0 of which the binary digits
\* from position j on are left: the product of the table's entries
RECURSIVE PowBits(_, _)
PowBits(n, j) ==
    IF n = 0 THEN Micro
    ELSE IF n % 2 = 1 THEN MulMicro(PowerTable[j], PowBits(n \div 2, j + 1))
    ELSE PowBits(n \div 2, j + 1)

\* Math.pow(10, d / 400) for an integer d
Pow10By400(d) ==
    IF d >= 0 THEN PowBits(d, 1) ELSE LongDiv(Micro, PowBits(-d, 1), 6)

\* getExpectedScore
GetExpectedScore(ratingA, ratingB) ==
    LongDiv(Micro, Micro + Pow10By400(ratingB - ratingA), 6)

\* Math.exp(-kFactorDecay * matchesPlayed)
RECURSIVE ExpDecay(_)
ExpDecay(matchesPlayed) ==
    IF matchesPlayed = 0 THEN Micro
    ELSE MulMicro(ExpDecay(matchesPlayed - 1), kFactorDecayExp)

\* GetKFactor, with the minimum K-factor for everybody
GetKFactor_min(matchesPlayed) == kFactorMin * Micro

\* getKFactor
GetKFactor(matchesPlayed) ==
    Max(kFactorMin * Micro, kFactor * ExpDecay(matchesPlayed))

\* The record playerRatings holds for a name at the start
InitialRecord(name) ==
    [name |-> name, elo |-> initialRating, wins |-> 0, losses |-> 0,
     pointsWon |-> 0, pointsConceded |-> 0, matchesPlayed |-> 0]

\* updatePlayerRatings: the pair <<updatedA, updatedB>>
UpdatePlayerRatings(playerA, playerB, scoreA, scoreB) ==
    LET expectedA == GetExpectedScore(playerA.elo, playerB.elo)
        expectedB == GetExpectedScore(playerB.elo, playerA.elo)
        actualA == IF scoreA > scoreB THEN Micro
                   ELSE IF scoreA = scoreB THEN Micro \div 2 ELSE 0
        actualB == Micro - actualA
        totalPoints == scoreA + scoreB
        pointDiffA == IF totalPoints > 0 THEN Div(scoreA - scoreB, totalPoints)
                      ELSE 0
        pointDiffFactor == Mul(pointDiffWeight, Abs(pointDiffA))
        kFactorA == GetKFactor(playerA.matchesPlayed)
        kFactorB == GetKFactor(playerB.matchesPlayed)
        changeA == Round(Mul(kFactorA, (actualA - expectedA)
                                         + Mul(pointDiffFactor, pointDiffA)))
        changeB == Round(Mul(kFactorB, (actualB - expectedB)
                                         - Mul(pointDiffFactor, pointDiffA)))
    IN  << [playerA EXCEPT
               !.elo = @ + changeA,
               !.wins = @ + (IF actualA = Micro THEN 1 ELSE 0),
               !.losses = @ + (IF actualA = 0 THEN 1 ELSE 0),
               !.pointsWon = @ + scoreA,
               !.pointsConceded = @ + scoreB,
               !.matchesPlayed = @ + 1],
           [playerB EXCEPT
               !.elo = @ + changeB,
               !.wins = @ + (IF actualB = Micro THEN 1 ELSE 0),
               !.losses = @ + (IF actualB = 0 THEN 1 ELSE 0),
               !.pointsWon = @ + scoreB,
               !.pointsConceded = @ + scoreA,
               !.matchesPlayed = @ + 1] >>

(* ---------------------------------------------------------------------- *)
(* calculateEloRatings: the replay of the history                          *)
(* ---------------------------------------------------------------------- *)
\* playerRatings after the loop over db.data.players
InitialRatings(dbPlayers) ==
    [name \in Range(dbPlayers) |-> InitialRecord(name)]

\* new Date(id).getTime() of an id <<year, month, day>>, counted in days of
\* a calendar of 31-day months: its order is the order of the dates
GetTime(id) == ((id[1] - 1970) * 12 + (id[2] - 1)) * 31 + (id[3] - 1)

\* SortSessions, with the stored order kept
SortSessions_stored(sessions) == sessions

\* sortedSessions: a copy of db.data.sessions sorted by date, ascending
SortSessions(sessions) ==
    StableSort(sessions, LAMBDA a, b : GetTime(a.id) - GetTime(b.id) < 0)

\* The sets of a list of rounds in the order the forEach loops visit them
RECURSIVE RoundSets(_)
RoundSets(rs) ==
    IF rs = <<>> THEN <<>> ELSE Head(rs).sets \o RoundSets(Tail(rs))

\* The sets of a list of sessions in the order the forEach loops visit them
RECURSIVE SessionSets(_)
SessionSets(sessions) ==
    IF sessions = <<>> THEN <<>>
    ELSE RoundSets(Head(sessions).rounds) \o SessionSets(Tail(sessions))

\* Unplayed, with no set skipped
Unplayed_never(set) == FALSE

\* team1.points === 0 && team2.points === 0
Unplayed(set) == set.teams[1].points = 0 /\ set.teams[2].points = 0

\* CrossPairs, with the loop over team2 as the outer loop
CrossPairs_team2Major(set) ==
    LET n1 == Len(Team1(set))
    IN  [k \in 1..(n1 * Len(Team2(set))) |->
            <<Team1(set)[((k - 1) % n1) + 1], Team2(set)[((k - 1) \div n1) + 1]>>]

\* The pairs <<player1, player2>> in the order of the two nested loops
CrossPairs(set) ==
    LET n2 == Len(Team2(set))
    IN  [k \in 1..(Len(Team1(set)) * n2) |->
            <<Team1(set)[((k - 1) \div n2) + 1], Team2(set)[((k - 1) % n2) + 1]>>]

\* playerRatings[name] is truthy: the name has a record
Known(ratings, name) == name \in DOMAIN ratings

\* ApplyPair, with the whole updated records written back
ApplyPair_wholeRecords(acc, pair, points1, points2) ==
    IF ~Known(acc.ratings, pair[1]) \/ ~Known(acc.ratings, pair[2]) THEN acc
    ELSE LET before1 == acc.ratings[pair[1]]
             before2 == acc.ratings[pair[2]]
             updated == UpdatePlayerRatings(before1, before2, points1, points2)
         IN  [ratings |-> [acc.ratings EXCEPT ![pair[1]] = updated[1],
                                              ![pair[2]] = updated[2]],
              log |-> Append(acc.log,
                         [player1 |-> pair[1], player2 |-> pair[2],
                          before1 |-> before1, before2 |-> before2,
                          score1 |-> points1, score2 |-> points2,
                          updated1 |-> updated[1], updated2 |-> updated[2]])]

\* ApplyPair, with a fresh record made for a name that has none
ApplyPair_newRecords(acc, pair, points1, points2) ==
    LET RecordOf(name) == IF Known(acc.ratings, name) THEN acc.ratings[name]
                          ELSE InitialRecord(name)
        before1 == RecordOf(pair[1])
        before2 == RecordOf(pair[2])
        updated == UpdatePlayerRatings(before1, before2, points1, points2)
    IN  [ratings |-> (pair[2] :> [before2 EXCEPT !.elo = updated[2].elo])
                     @@ (pair[1] :> [before1 EXCEPT !.elo = updated[1].elo])
                     @@ acc.ratings,
         log |-> Append(acc.log,
                    [player1 |-> pair[1], player2 |-> pair[2],
                     before1 |-> before1, before2 |-> before2,
                     score1 |-> points1, score2 |-> points2,
                     updated1 |-> updated[1], updated2 |-> updated[2]])]

\* One iteration of the inner loop over the pairs: nothing for a pair with an
\* unknown name, otherwise updatePlayerRatings on the two current records
\* and the two elo fields written back.  The log keeps what was passed to
\* updatePlayerRatings and what it returned.
ApplyPair(acc, pair, points1, points2) ==
    IF ~Known(acc.ratings, pair[1]) \/ ~Known(acc.ratings, pair[2]) THEN acc
    ELSE LET before1 == acc.ratings[pair[1]]
             before2 == acc.ratings[pair[2]]
             updated == UpdatePlayerRatings(before1, before2, points1, points2)
         IN  [ratings |-> [acc.ratings EXCEPT ![pair[1]].elo = updated[1].elo,
                                              ![pair[2]].elo = updated[2].elo],
              log |-> Append(acc.log,
                         [player1 |-> pair[1], player2 |-> pair[2],
                          before1 |-> before1, before2 |-> before2,
                          score1 |-> points1, score2 |-> points2,
                          updated1 |-> updated[1], updated2 |-> updated[2]])]

\* The two nested loops over the pairs, from pair k on
RECURSIVE ApplyPairs(_, _, _, _, _)
ApplyPairs(acc, pairs, k, points1, points2) ==
    IF k > Len(pairs) THEN acc
    ELSE ApplyPairs(ApplyPair(acc, pairs[k], points1, points2),
                    pairs, k + 1, points1, points2)

\* One iteration of the loop over the players of the set: the stats of a
\* known player
ApplyStats(ratings, player, set) ==
    IF ~Known(ratings, player) THEN ratings
    ELSE LET isTeam1 == player \in Range(Team1(set))
             ownTeam == IF isTeam1 THEN set.teams[1] ELSE set.teams[2]
             opposingTeam == IF isTeam1 THEN set.teams[2] ELSE set.teams[1]
         IN  [ratings EXCEPT ![player] =
                 [@ EXCEPT
                     !.wins = @ + (IF ownTeam.points > opposingTeam.points
                                   THEN 1 ELSE 0),
                     !.losses = @ + (IF ownTeam.points < opposingTeam.points
                                     THEN 1 ELSE 0),
                     !.pointsWon = @ + ownTeam.points,
                     !.pointsConceded = @ + opposingTeam.points,
                     !.matchesPlayed = @ + 1]]

\* The loop over [...team1.team.players, ...team2.team.players], from k on
RECURSIVE ApplyAllStats(_, _, _, _)
ApplyAllStats(ratings, ps, k, set) ==
    IF k > Len(ps) THEN ratings
    ELSE ApplyAllStats(ApplyStats(ratings, ps[k], set), ps, k + 1, set)

\* The body of round.sets.forEach for one set: playerRatings and the log of
\* the pairwise updates after it
ReplayedSet(ratings, set) ==
    IF Len(set.teams) # 2 \/ Unplayed(set) THEN [ratings |-> ratings, log |-> <<>>]
    ELSE LET acc == ApplyPairs([ratings |-> ratings, log |-> <<>>],
                               CrossPairs(set), 1,
                               set.teams[1].points, set.teams[2].points)
         IN  [ratings |-> ApplyAllStats(acc.ratings, Team1(set) \o Team2(set), 1, set),
              log |-> acc.log]

\* RatingTable, without the sort
RatingTable_unsorted(ratings, dbPlayers) ==
    SelectSeq([k \in 1..Len(dbPlayers) |-> ratings[dbPlayers[k]]],
              LAMBDA player : player.matchesPlayed >= minMatches)

\* The returned table: Object.values(playerRatings) (the records in the
\* order of db.data.players), filtered and sorted by elo, descending
RatingTable(ratings, dbPlayers) ==
    StableSort(SelectSeq([k \in 1..Len(dbPlayers) |-> ratings[dbPlayers[k]]],
                         LAMBDA player : player.matchesPlayed >= minMatches),
               LAMBDA a, b : b.elo - a.elo < 0)

(* ---------------------------------------------------------------------- *)
(* getPlayerEloMap (src/test.sh) and calculateEnhancedRankings            *)
(* ---------------------------------------------------------------------- *)
\* PlayerEloMapOf, without the default for the players the table lacks
PlayerEloMapOf_noDefault(table, dbPlayers) ==
    [name \in {table[k].name : k \in 1..Len(table)} |->
        table[CHOOSE k \in 1..Len(table) : table[k].name = name].elo]

\* getPlayerEloMap after its call of calculateEloRatings: the elo of every
\* entry of the table, then the initial rating for every player of
\* db.data.players that has no entry
PlayerEloMapOf(table, dbPlayers) ==
    [name \in {table[k].name : k \in 1..Len(table)} \cup Range(dbPlayers) |->
        IF \E k \in 1..Len(table) : table[k].name = name
        THEN table[CHOOSE k \in 1..Len(table) :
                      /\ table[k].name = name
                      /\ \A j \in (k + 1)..Len(table) : table[j].name # name].elo
        ELSE initialRating]

\* The games of the consistency metric: avgPointDiffPerGame / 21
consistencyPoints == 21

\* EnhancedRanking, with the point differential added to the one the entry
\* already has
EnhancedRanking_accumulated(player) ==
    LET pointDifferential ==
            (IF "pointDifferential" \in DOMAIN player
             THEN player.pointDifferential ELSE 0)
            + player.pointsWon - player.pointsConceded
    IN  [pointDifferential |-> pointDifferential,
         winRate |-> 0,
         avgPointsPerGame |-> 0,
         avgPointDiffPerGame |-> 0,
         consistency |-> 0] @@ player

\* The callback of ratings.map: the entry with its derived fields; the
\* fields of the entry are spread first, the derived fields overwrite them
EnhancedRanking(player) ==
    LET matchesPlayed == player.matchesPlayed
        pointDifferential == player.pointsWon - player.pointsConceded
        winRate == IF matchesPlayed > 0 THEN Div(player.wins, matchesPlayed) ELSE 0
        avgPointsPerGame ==
            IF matchesPlayed > 0 THEN Div(player.pointsWon, matchesPlayed) ELSE 0
        avgPointDiffPerGame ==
            IF matchesPlayed > 0 THEN Div(pointDifferential, matchesPlayed) ELSE 0
        perGame == IF avgPointDiffPerGame >= 0
                   THEN avgPointDiffPerGame \div consistencyPoints
                   ELSE -((-avgPointDiffPerGame) \div consistencyPoints)
        consistency ==
            IF winRate > 0
            THEN Min(Micro, Max(0, Micro - Abs(Micro \div 2 - perGame) * 2))
            ELSE 0
    IN  [pointDifferential |-> pointDifferential,
         winRate |-> winRate,
         avgPointsPerGame |-> avgPointsPerGame,
         avgPointDiffPerGame |-> avgPointDiffPerGame,
         consistency |-> consistency] @@ player

\* calculateEnhancedRankings
CalculateEnhancedRankings(ratings) ==
    [k \in 1..Len(ratings) |-> EnhancedRanking(ratings[k])]

(* ---------------------------------------------------------------------- *)
(* Inputs of the rating engine                                             *)
(* ---------------------------------------------------------------------- *)
\* setPointsToSet for a player of each team
WithPoints(set, points1, points2) ==
    [set EXCEPT !.teams[1].points = points1, !.teams[2].points = points2]

\* Round k of a one-court session with its set and the points of the set
PlayedRound(k, team1, points1, team2, points2) ==
    MakeRound(k - 1, <<WithPoints(MakeSet(k - 1, 0, team1, team2), points1, points2)>>)

\* db.data.players
DbPlayers == <<1, 2, 3, 4, 5>>

\* The sessions a database is made of.  The names 8 and 9 are not in
\* db.data.players; the last two sessions have the same date.
SessionPool ==
    << [id |-> <<2025, 3, 28>>, players |-> <<1, 2, 3, 4>>,
        rounds |-> << PlayedRound(1, <<1, 2>>, 21, <<3, 4>>, 10),
                      PlayedRound(2, <<1, 3>>, 21, <<2, 4>>, 18),
                      PlayedRound(3, <<1, 4>>, 15, <<2, 3>>, 21) >>],
       [id |-> <<2025, 4, 4>>, players |-> <<1, 2, 3, 4, 5>>,
        rounds |-> << PlayedRound(1, <<1, 2>>, 0, <<3, 4>>, 0),
                      PlayedRound(2, <<1, 3>>, 10, <<2, 4>>, 21),
                      PlayedRound(3, <<1, 4>>, 21, <<2, 3>>, 19),
                      PlayedRound(4, <<5, 1>>, 21, <<2, 3>>, 12) >>],
       [id |-> <<2025, 4, 11>>, players |-> <<1, 2, 3, 4>>,
        rounds |-> << PlayedRound(1, <<1, 9>>, 21, <<3, 4>>, 15),
                      PlayedRound(2, <<9, 8>>, 21, <<1, 2>>, 5),
                      PlayedRound(3, <<3, 4>>, 21, <<1, 2>>, 18) >>],
       [id |-> <<2025, 4, 18>>, players |-> <<1, 2, 3, 4>>,
        rounds |-> << PlayedRound(1, <<1, 2>>, 21, <<3, 4>>, 10),
                      PlayedRound(2, <<2, 1>>, 11, <<4, 3>>, 21),
                      PlayedRound(3, <<1, 3>>, 20, <<2, 4>>, 20) >>],
       [id |-> <<2025, 4, 18>>, players |-> <<1, 2, 3, 4>>,
        rounds |-> << PlayedRound(1, <<1, 4>>, 21, <<2, 3>>, 10),
                      PlayedRound(2, <<1, 3>>, 21, <<2, 4>>, 10),
                      PlayedRound(3, <<1, 2>>, 21, <<3, 4>>, 10) >>] >>

\* The databases: up to MaxSessions different sessions of the pool, stored
\* in any order
Databases ==
    UNION {{[players |-> DbPlayers,
             sessions |-> [k \in 1..n |-> SessionPool[s[k]]]] :
               s \in {t \in [1..n -> 1..Len(SessionPool)] :
                         \A i, j \in 1..n : i # j => t[i] # t[j]}} :
           n \in 0..MaxSessions}

(* ---------------------------------------------------------------------- *)
(* The state machine of the rating engine                                  *)
(* ---------------------------------------------------------------------- *)
\* No schedule is being generated
SchedulerIdle ==
    /\ pc = "off"
    /\ caller = "none"
    /\ session = NoSession
    /\ players = <<>>
    /\ maxRounds = 0
    /\ numCourts = 0
    /\ db = NoDb
    /\ CoreFresh

\* calculateEloRatings is called with a database
InitRatings ==
    /\ SchedulerIdle
    /\ CallerIdle
    /\ ratingPc = "call"
    /\ data \in Databases
    /\ playerRatings = <<>>
    /\ sortedSessions = <<>>
    /\ setIndex = 0
    /\ pairLog = <<>>
    /\ eloRatings = <<>>
    /\ eloMap = <<>>
    /\ rankingInput = <<>>
    /\ enhancedRankings = <<>>
    /\ enhancedAgain = <<>>
    /\ replayNo = 1
    /\ firstRatings = <<>>

\* BeginReplay, with db.data.sessions itself sorted instead of a copy
BeginReplay_inPlace ==
    /\ ratingPc = "call"
    /\ playerRatings' = InitialRatings(data.players)
    /\ sortedSessions' = SortSessions(data.sessions)
    /\ data' = [data EXCEPT !.sessions = sortedSessions']
    /\ setIndex' = 1
    /\ pairLog' = <<>>
    /\ ratingPc' = "replay"
    /\ UNCHANGED <<schedulerVars, callerVars, eloRatings, eloMap, rankingInput,
                   enhancedRankings, enhancedAgain, replayNo, firstRatings>>

\* calculateEloRatings up to the loop over the sorted sessions
BeginReplay ==
    /\ ratingPc = "call"
    /\ playerRatings' = InitialRatings(data.players)
    /\ sortedSessions' = SortSessions(data.sessions)
    /\ setIndex' = 1
    /\ pairLog' = <<>>
    /\ ratingPc' = "replay"
    /\ UNCHANGED <<schedulerVars, callerVars, data, eloRatings, eloMap, rankingInput,
                   enhancedRankings, enhancedAgain, replayNo, firstRatings>>

\* One iteration of round.sets.forEach
ReplaySet ==
    /\ ratingPc = "replay"
    /\ setIndex <= Len(SessionSets(sortedSessions))
    /\ \E after \in {ReplayedSet(playerRatings,
                                 SessionSets(sortedSessions)[setIndex])} :
          /\ playerRatings' = after.ratings
          /\ pairLog' = after.log
    /\ setIndex' = setIndex + 1
    /\ UNCHANGED <<schedulerVars, callerVars, ratingPc, data, sortedSessions, eloRatings,
                   eloMap, rankingInput, enhancedRankings, enhancedAgain,
                   replayNo, firstRatings>>

\* The end of the loops: the table is returned
ReturnRatings ==
    /\ ratingPc = "replay"
    /\ setIndex > Len(SessionSets(sortedSessions))
    /\ eloRatings' = RatingTable(playerRatings, data.players)
    /\ ratingPc' = "returned"
    /\ UNCHANGED <<schedulerVars, callerVars, data, playerRatings, sortedSessions,
                   setIndex, pairLog, eloMap, rankingInput, enhancedRankings,
                   enhancedAgain, replayNo, firstRatings>>

\* getPlayerEloMap after calculateEloRatings has returned to it
BuildEloMap ==
    /\ ratingPc = "returned"
    /\ eloMap' = PlayerEloMapOf(eloRatings, data.players)
    /\ ratingPc' = "mapped"
    /\ UNCHANGED <<schedulerVars, callerVars, data, playerRatings, sortedSessions,
                   setIndex, pairLog, eloRatings, rankingInput,
                   enhancedRankings, enhancedAgain, replayNo, firstRatings>>

\* calculateEnhancedRankings on the returned table or on the records of all
\* players
Enhance ==
    /\ ratingPc = "returned"
    /\ rankingInput' \in
           {eloRatings,
            [k \in 1..Len(data.players) |-> playerRatings[data.players[k]]]}
    /\ enhancedRankings' = CalculateEnhancedRankings(rankingInput')
    /\ ratingPc' = "enhanced"
    /\ UNCHANGED <<schedulerVars, callerVars, data, playerRatings, sortedSessions,
                   setIndex, pairLog, eloRatings, eloMap, enhancedAgain,
                   replayNo, firstRatings>>

\* calculateEnhancedRankings on its own output
EnhanceAgain ==
    /\ ratingPc = "enhanced"
    /\ enhancedAgain' = CalculateEnhancedRankings(enhancedRankings)
    /\ ratingPc' = "enhancedAgain"
    /\ UNCHANGED <<schedulerVars, callerVars, data, playerRatings, sortedSessions,
                   setIndex, pairLog, eloRatings, eloMap, rankingInput,
                   enhancedRankings, replayNo, firstRatings>>

\* The caller keeps the table; db.data.sessions is then stored in another
\* order and calculateEloRatings is called again
ReplayReordered ==
    /\ ratingPc = "returned"
    /\ replayNo = 1
    /\ \E perm \in Permutations(1..Len(data.sessions)) :
          /\ \E k \in 1..Len(data.sessions) : perm[k] # k
          /\ data' = [data EXCEPT
                         !.sessions = [k \in 1..Len(data.sessions) |->
                                          data.sessions[perm[k]]]]
    /\ firstRatings' = eloRatings
    /\ replayNo' = 2
    /\ ratingPc' = "call"
    /\ UNCHANGED <<schedulerVars, callerVars, playerRatings, sortedSessions, setIndex,
                   pairLog, eloRatings, eloMap, rankingInput,
                   enhancedRankings, enhancedAgain>>

NextRatings ==
    \/ BeginReplay
    \/ ReplaySet
    \/ ReturnRatings
    \/ BuildEloMap
    \/ Enhance
    \/ EnhanceAgain
    \/ ReplayReordered

SpecRatings == InitRatings /\ [][NextRatings]_vars

\* Either function is called: the behaviours of Spec and of SpecRatings
InitCalls == Init \/ InitRatings

NextCalls ==
    \/ EnterNoCourts
    \/ Enter
    \/ BeginRound
    \/ SkipCourt
    \/ FillCourt
    \/ EndRound
    \/ Return
    \/ CallAgain
    \/ StoreRounds
    \/ BeginReplay
    \/ ReplaySet
    \/ ReturnRatings
    \/ BuildEloMap
    \/ Enhance
    \/ EnhanceAgain
    \/ ReplayReordered

SpecCalls == InitCalls /\ [][NextCalls]_vars

(* ---------------------------------------------------------------------- *)
(* Observations on the replay                                              *)
(* ---------------------------------------------------------------------- *)
DbNames == Range(data.players)

\* The names of a table, in its order
TableNames(table) == [k \in 1..Len(table) |-> table[k].name]

\* Both teams of the set have 0 points
BothZero(set) == set.teams[1].points = 0 /\ set.teams[2].points = 0

\* The number of stored sets with points that name player p
PlayedCount(p) ==
    LET stored == SessionSets(data.sessions)
    IN  Cardinality({k \in 1..Len(stored) :
                        ~BothZero(stored[k]) /\ p \in SetPlayers(stored[k])})

\* The set the replay visits next, and the one it visited last
NextSet == SessionSets(sortedSessions)[setIndex]
LastSet == SessionSets(sortedSessions)[setIndex - 1]

\* A step of the replay over a set without points, over a set with points
VisitsUnplayedSet ==
    ratingPc = "replay" /\ setIndex' = setIndex + 1 /\ BothZero(NextSet)
VisitsPlayedSet ==
    ratingPc = "replay" /\ setIndex' = setIndex + 1 /\ ~BothZero(NextSet)

\* The replay has visited a set
Visited == ratingPc = "replay" /\ setIndex >= 2

(* ---------------------------------------------------------------------- *)
(* Claims on the rating engine                                             *)
(* ---------------------------------------------------------------------- *)

\* C13: the returned table holds exactly the players of db.players that are
\* named in at least 8 stored sets with points, each once and with the
\* record of the replay, in order of non-increasing rating; it is the empty
\* table when no player qualifies.
C13_RatingTable ==
    ratingPc = "returned" =>
        /\ Range(TableNames(eloRatings)) =
               {p \in DbNames : playerRatings[p].matchesPlayed >= 8}
        /\ Range(TableNames(eloRatings)) = {p \in DbNames : PlayedCount(p) >= 8}
        /\ Len(eloRatings) = Cardinality(Range(TableNames(eloRatings)))
        /\ \A k \in 1..Len(eloRatings) :
              /\ eloRatings[k] = playerRatings[eloRatings[k].name]
              /\ eloRatings[k].matchesPlayed = PlayedCount(eloRatings[k].name)
        /\ \A k \in 1..(Len(eloRatings) - 1) :
              eloRatings[k].elo >= eloRatings[k + 1].elo

C13_Witness ==
    /\ ratingPc = "returned"
    /\ Len(eloRatings) >= 3
    /\ eloRatings[1].elo > eloRatings[Len(eloRatings)].elo
    /\ \E k \in 1..(Len(eloRatings) - 1) : eloRatings[k].name > eloRatings[k + 1].name
    /\ \E p \in DbNames : PlayedCount(p) \in 1..7

\* No player qualifies although sets have been played: the table is empty
C13_WitnessEmpty ==
    /\ ratingPc = "returned"
    /\ eloRatings = <<>>
    /\ \E p \in DbNames : PlayedCount(p) >= 3

\* C14: the replay of a set whose two teams both have 0 points changes no
\* record of playerRatings (rating, wins, losses, points, matchesPlayed).
C14_UnplayedSetNoChange ==
    [][VisitsUnplayedSet => playerRatings' = playerRatings]_vars

C14_Witness ==
    /\ Visited
    /\ BothZero(LastSet)
    /\ \E p \in DbNames : playerRatings[p].matchesPlayed >= 3
    /\ \E p \in DbNames : playerRatings[p].elo # initialRating

\* The replay of a set with points: every player of db.players named in the
\* set gets matchesPlayed + 1, one win or loss at most and the points of the
\* set, every other player keeps its stats; and every record passed to
\* updatePlayerRatings has the stats the player had before the set.
StatsOncePerMatch ==
    LET set == NextSet
        own(p) == IF p \in Range(Team1(set)) THEN set.teams[1].points
                  ELSE set.teams[2].points
        opp(p) == IF p \in Range(Team1(set)) THEN set.teams[2].points
                  ELSE set.teams[1].points
    IN  /\ \A p \in DbNames :
              LET old == playerRatings[p]
                  new == playerRatings'[p]
              IN  IF p \in SetPlayers(set)
                  THEN /\ new.matchesPlayed = old.matchesPlayed + 1
                       /\ new.wins = old.wins + (IF own(p) > opp(p) THEN 1 ELSE 0)
                       /\ new.losses = old.losses + (IF own(p) < opp(p) THEN 1 ELSE 0)
                       /\ new.pointsWon = old.pointsWon + own(p)
                       /\ new.pointsConceded = old.pointsConceded + opp(p)
                  ELSE new = old
        /\ \A k \in 1..Len(pairLog') :
              LET u == pairLog'[k]
              IN  /\ u.before1 = [playerRatings[u.player1] EXCEPT !.elo = u.before1.elo]
                  /\ u.before2 = [playerRatings[u.player2] EXCEPT !.elo = u.before2.elo]
        /\ SetPlayers(set) \subseteq DbNames => Len(pairLog') = 4

\* C15: each set with points raises matchesPlayed of each of its players of
\* db.players by exactly 1, the stats are written once per player after the
\* pairwise updates, and every pairwise update of the set works on the
\* matchesPlayed the player had before the set.
C15_StatsOncePerMatch ==
    [][VisitsPlayedSet => StatsOncePerMatch]_vars

C15_Witness ==
    /\ Visited
    /\ Len(pairLog) = 4
    /\ \E k \in 1..4 : pairLog[k].before1.matchesPlayed \in 1..6
    /\ pairLog[2].before1.elo # pairLog[1].before1.elo
    /\ \A p \in SetPlayers(LastSet) : playerRatings[p].matchesPlayed >= 2

\* The names with a rating record are the names of db.players
OnlyDbNames ==
    ratingPc \in {"replay", "returned", "mapped", "enhanced", "enhancedAgain"} =>
        /\ DOMAIN playerRatings = DbNames
        /\ Range(TableNames(eloRatings)) \subseteq DbNames

\* The replay of a set with points: updatePlayerRatings is called for the
\* cross-team pairs of two names of db.players and for no other pair, and a
\* player whose every cross-team pair has a name outside db.players keeps
\* its rating.
UnknownPairsSkipped ==
    LET set == NextSet
        cross == Range(Team1(set)) \X Range(Team2(set))
    IN  /\ {<<pairLog'[k].player1, pairLog'[k].player2>> : k \in 1..Len(pairLog')}
               = {c \in cross : c[1] \in DbNames /\ c[2] \in DbNames}
        /\ \A p \in DbNames :
              (\A c \in cross : p \in {c[1], c[2]} =>
                                    (c[1] \notin DbNames \/ c[2] \notin DbNames))
                  => playerRatings'[p].elo = playerRatings[p].elo

\* C16: a set with points that names a player absent from db.players is
\* replayed like any other (no error), no rating record is made for the
\* absent name, and no cross-team pair with the absent name changes a rating.
C16_UnknownPlayerIgnored ==
    /\ []OnlyDbNames
    /\ [][VisitsPlayedSet => UnknownPairsSkipped]_vars

C16_Witness ==
    /\ Visited
    /\ ~BothZero(LastSet)
    /\ ~(SetPlayers(LastSet) \subseteq DbNames)
    /\ Len(pairLog) = 2
    /\ \E p \in SetPlayers(LastSet) \cap DbNames : playerRatings[p].matchesPlayed >= 4

\* The session ids of the database are different dates
DistinctDates ==
    \A i, j \in 1..Len(data.sessions) :
        i # j => GetTime(data.sessions[i].id) # GetTime(data.sessions[j].id)

\* C17: when the session ids are different dates, the replay of the
\* database with its sessions stored in another order returns the table the
\* first replay returned.
C17_StoredOrderIrrelevant ==
    (ratingPc = "returned" /\ replayNo = 2 /\ DistinctDates) =>
        eloRatings = firstRatings

C17_Witness ==
    /\ ratingPc = "returned"
    /\ replayNo = 2
    /\ DistinctDates
    /\ Len(data.sessions) >= 3
    /\ Len(eloRatings) >= 3
    /\ sortedSessions # data.sessions

\* C18: a pairwise update of two players with equal ratings and no match
\* played, for the scores 21-10, raises the winner's rating by exactly 16
\* and lowers the loser's by exactly 16.
C18_FirstMatchSixteen ==
    \A k \in 1..Len(pairLog) :
        LET u == pairLog[k]
        IN  (/\ u.before1.elo = u.before2.elo
             /\ u.before1.matchesPlayed = 0
             /\ u.before2.matchesPlayed = 0
             /\ {u.score1, u.score2} = {21, 10}) =>
                IF u.score1 = 21
                THEN /\ u.updated1.elo = u.before1.elo + 16
                     /\ u.updated2.elo = u.before2.elo - 16
                ELSE /\ u.updated1.elo = u.before1.elo - 16
                     /\ u.updated2.elo = u.before2.elo + 16

C18_Witness ==
    /\ Visited
    /\ Len(pairLog) >= 1
    /\ pairLog[1].before1.elo = pairLog[1].before2.elo
    /\ pairLog[1].before1.matchesPlayed = 0
    /\ pairLog[1].before2.matchesPlayed = 0
    /\ pairLog[1].score1 = 21
    /\ pairLog[1].score2 = 10
    /\ pairLog[1].updated1.elo = 1016
    /\ pairLog[1].updated2.elo = 984

\* C19: calculateEnhancedRankings on its own output returns that output, and
\* its output has the entries of its input, in the order of the input, each
\* with the fields of the input unchanged.
C19_EnhanceIdempotent ==
    ratingPc = "enhancedAgain" =>
        /\ enhancedAgain = enhancedRankings
        /\ Len(enhancedRankings) = Len(rankingInput)
        /\ \A k \in 1..Len(rankingInput) :
              \A f \in DOMAIN rankingInput[k] :
                  enhancedRankings[k][f] = rankingInput[k][f]

C19_Witness ==
    /\ ratingPc = "enhancedAgain"
    /\ Len(enhancedRankings) >= 3
    /\ \E k \in 1..Len(enhancedRankings) :
          /\ enhancedRankings[k].pointDifferential > 0
          /\ enhancedRankings[k].consistency > 0
          /\ enhancedRankings[k].consistency < Micro
    /\ \E k \in 1..Len(enhancedRankings) :
          enhancedRankings[k].pointDifferential < 0
    /\ \E k \in 1..Len(enhancedRankings) : enhancedRankings[k].matchesPlayed = 0

\* C20: the lookup of getPlayerEloMap has an entry for every player of
\* db.players and for no other name: 1000 for a player named in fewer than 8
\* stored sets with points, the rating of the replay for every other player.
C20_EloMapDefaults ==
    ratingPc = "mapped" =>
        /\ DOMAIN eloMap = DbNames
        /\ \A p \in DbNames :
              eloMap[p] = IF PlayedCount(p) < 8 THEN 1000 ELSE playerRatings[p].elo

C20_Witness ==
    /\ ratingPc = "mapped"
    /\ \E p \in DbNames : /\ PlayedCount(p) = 7
                          /\ playerRatings[p].elo # 1000
                          /\ eloMap[p] = 1000
    /\ \E p \in DbNames : /\ PlayedCount(p) >= 8
                          /\ eloMap[p] # 1000

(* ---------------------------------------------------------------------- *)
(* Claims on the selection of the players of a court                       *)
(* ---------------------------------------------------------------------- *)
RECURSIVE SetSum(_, _)
\* The sum of f[x] over the elements x of the set S
SetSum(f, S) ==
    IF S = {} THEN 0
    ELSE LET x == CHOOSE y \in S : TRUE
         IN  f[x] + SetSum(f, S \ {x})

\* The court formed by a step that commits a court: its four players in the
\* order of their selection
CourtFormed == slotLog'[Len(slotLog')].court

\* The sum, over the other available players q, of teammateFrequency[p][q]
\* + opponentFrequency[p][q]
PairingSum(p) ==
    LET others == Range(availablePlayers) \ {p}
    IN  SetSum([q \in others |->
                   teammateFrequency[p][q] + opponentFrequency[p][q]], others)

\* The first player of the court formed by the step minimizes PairingSum
\* over the available players and is the first name among the minimizers
FirstPlayerIsMinimizer ==
    LET first == CourtFormed[1]
    IN  /\ first \in Range(availablePlayers)
        /\ \A q \in Range(availablePlayers) :
              /\ PairingSum(first) <= PairingSum(q)
              /\ PairingSum(q) = PairingSum(first) /\ q # first =>
                     LocaleLess(first, q)

\* C23: the first player chosen for a court is an available player that
\* minimizes the sum, over the other available players q, of
\* teammateFrequency[p][q] + opponentFrequency[p][q]; among the minimizers it
\* is the first name (in the order of localeCompare, which the code uses)
C23_FirstPlayerMinimizes == [][CommitsCourt => FirstPlayerIsMinimizer]_vars

\* A court of a later round whose first player is not the first name that
\* was available: a player with a smaller name had a larger sum
C23_Witness ==
    /\ pc = "court"
    /\ roundIndex >= 1
    /\ courtIndex >= 1
    /\ slotLog # <<>>
    /\ LET court == slotLog[Len(slotLog)].court
       IN  \E q \in Range(availablePlayers) \cup Range(court) :
              LocaleLess(q, court[1])

\* The candidates of slot i of the court formed by the step, the players
\* already on the court, and the order of playerScores after its sort
SlotCourt(i) == SubSeq(CourtFormed, 1, i - 1)
SlotCandidates(i) == Range(availablePlayers) \ Range(SlotCourt(i))
SlotScore(i, p) ==
    PlayerScore(p, SlotCourt(i), teammateFrequency, opponentFrequency,
                sessionTeammateFrequency, sessionOpponentFrequency)
SlotBefore(i, a, b) ==
    \/ SlotScore(i, a) < SlotScore(i, b)
    \/ SlotScore(i, a) = SlotScore(i, b) /\ LocaleLess(a, b)
SlotFilterA(i, p) ==
    FilterA(p, SlotCourt(i), teammateFrequency, sessionTeammateFrequency,
            sessionOpponentFrequency, maxPairingFrequency)
SlotFilterB(i, p) ==
    FilterB(p, SlotCourt(i), teammateFrequency, sessionTeammateFrequency,
            sessionOpponentFrequency, maxPairingFrequency)

\* p is the first candidate of slot i, in the order of playerScores, among
\* the candidates of the set S
FirstOf(i, p, S) ==
    p \in S /\ \A q \in S \ {p} : SlotBefore(i, p, q)

\* Slot i is filled by the first candidate passing Filter A if there is one,
\* else by the first passing Filter B if there is one, else by the first
SlotByFilterOrder(i) ==
    LET passA == {p \in SlotCandidates(i) : SlotFilterA(i, p)}
        passB == {p \in SlotCandidates(i) : SlotFilterB(i, p)}
    IN  IF passA # {} THEN FirstOf(i, CourtFormed[i], passA)
        ELSE IF passB # {} THEN FirstOf(i, CourtFormed[i], passB)
        ELSE FirstOf(i, CourtFormed[i], SlotCandidates(i))

\* C24: for each of slots 2-4 of a court, with the candidates ordered by
\* ascending score and then name, the selected player is the first candidate
\* satisfying Filter A if any does, otherwise the first satisfying Filter B
\* if any does, otherwise the first candidate; a candidate satisfying Filter
\* A is never passed over for one that satisfies only Filter B or neither
C24_FilterOrder ==
    [][CommitsCourt => \A i \in 2..4 : SlotByFilterOrder(i)]_vars

\* A schedule in which slots were filled in each of the three ways
C24_Witness ==
    /\ Returned
    /\ \A how \in {"A", "B", "F"} :
          \E k \in 1..Len(slotLog) : how \in Range(slotLog[k].how)

(* ---------------------------------------------------------------------- *)
(* Claims on the two teams of a court                                      *)
(* ---------------------------------------------------------------------- *)
\* The rankings of four players by rating, descending; players of equal
\* rating keep the order of their selection (the sort is stable)
Rankings(four) ==
    LET at(p) == CHOOSE k \in 1..4 : four[k] = p
    IN  {r \in [1..4 -> Range(four)] :
            /\ Range(r) = Range(four)
            /\ \A k, l \in 1..4 : k < l =>
                  \/ EloOf(playerEloMap, r[k]) > EloOf(playerEloMap, r[l])
                  \/ /\ EloOf(playerEloMap, r[k]) = EloOf(playerEloMap, r[l])
                     /\ at(r[k]) < at(r[l])}

\* The three splits of a ranking, in the listed order
Splits(r) ==
    << <<r[1], r[4], r[2], r[3]>>,
       <<r[1], r[3], r[2], r[4]>>,
       <<r[1], r[2], r[3], r[4]>> >>

\* overallScore of the split of players a, b against players c, d, from the
\* ratings and the tables held before the court is committed
SplitScore(s) ==
    LET rating(p) == EloOf(playerEloMap, p)
        cross == {<<s[1], s[3]>>, <<s[1], s[4]>>, <<s[2], s[3]>>, <<s[2], s[4]>>}
    IN    200 * Abs((rating(s[1]) + rating(s[2])) - (rating(s[3]) + rating(s[4])))
        + (teammateFrequency[s[1]][s[2]] + teammateFrequency[s[3]][s[4]])
        + 50 * (sessionTeammateFrequency[s[1]][s[2]]
                + sessionTeammateFrequency[s[3]][s[4]])
        + 100 * SetSum([pq \in cross |->
                           Pow10(sessionOpponentFrequency[pq[1]][pq[2]] + 1)], cross)

\* The set pushed by a step that commits a court
SetFormed == sets'[Len(sets')]

\* The teams of the set formed are the earliest split of least overallScore
TeamsAreBestSplit ==
    /\ Rankings(CourtFormed) # {}
    /\ \A r \in Rankings(CourtFormed) :
          \E k \in 1..3 :
             /\ Team1(SetFormed) \o Team2(SetFormed) = Splits(r)[k]
             /\ \A j \in 1..3 :
                   /\ SplitScore(Splits(r)[k]) <= SplitScore(Splits(r)[j])
                   /\ j < k => SplitScore(Splits(r)[k]) < SplitScore(Splits(r)[j])

\* C25: the two teams of a court are one of the three splits of the four
\* chosen players ranked by rating descending (1st+4th vs 2nd+3rd, 1st+3rd vs
\* 2nd+4th, 1st+2nd vs 3rd+4th), namely a split of least overallScore =
\* 200*|rating sum difference| + teammate count of the two teams in the
\* global table + 50 * their count in the session table + 100 * the sum over
\* the cross pairs of 10^(session opponent table entry + 1); of several such
\* splits the earliest listed is taken
C25_BestOfThreeSplits == [][CommitsCourt => TeamsAreBestSplit]_vars

\* The split of the last set of the round, as its index in the listed order
\* for the ranking of the court's players
SplitTaken(k) ==
    LET last == sets[Len(sets)]
        four == slotLog[Len(slotLog)].court
    IN  \E r \in Rankings(four) : Team1(last) \o Team2(last) = Splits(r)[k]

\* A court with players of different ratings whose teams are the second or
\* the third split
C25_Witness ==
    /\ pc = "court"
    /\ sets # <<>>
    /\ slotLog # <<>>
    /\ \E p, q \in Range(slotLog[Len(slotLog)].court) :
          EloOf(playerEloMap, p) # EloOf(playerEloMap, q)
    /\ SplitTaken(2) \/ SplitTaken(3)

\* A court whose teams are the first split
C25_WitnessFirst ==
    /\ pc = "court"
    /\ sets # <<>>
    /\ slotLog # <<>>
    /\ SplitTaken(1)

(* ---------------------------------------------------------------------- *)
(* Claims on the shape of the returned schedule                            *)
(* ---------------------------------------------------------------------- *)
\* The positions <<k, j>> of the sets of a schedule: round k, set j
SetPositions(rs) ==
    {<<k, j>> \in (1..Len(rs)) \X (1..(MaxCourts + 1)) : j <= Len(rs[k].sets)}

\* C26: in the returned schedule the k-th round has id "round-k" and its
\* j-th set has id "k-j" and court number j, so the set ids are unique and
\* in round-major, then court-major order; both teams of every set have 0
\* points
C26_IdsAndPoints ==
    Returned =>
        /\ \A k \in 1..Len(rounds) : rounds[k].id = <<"round", k>>
        /\ \A pos \in SetPositions(rounds) :
              LET set == rounds[pos[1]].sets[pos[2]]
              IN  /\ set.id = pos
                  /\ set.court = pos[2]
                  /\ set.teams[1].points = 0
                  /\ set.teams[2].points = 0
        /\ \A pos, other \in SetPositions(rounds) :
              pos # other =>
                  rounds[pos[1]].sets[pos[2]].id # rounds[other[1]].sets[other[2]].id

\* A schedule of several rounds with several sets each
C26_Witness ==
    /\ Returned
    /\ Len(rounds) >= 2
    /\ \A k \in 1..Len(rounds) : Len(rounds[k].sets) >= 2

\* The sets of round k of a schedule that player p is assigned to
SetsOf(rs, k, p) ==
    {j \in 1..Len(rs[k].sets) : p \in SetPlayers(rs[k].sets[j])}

\* C28: within any round of the returned schedule no player is assigned to
\* more than one set; when N = 4*C every roster player is in exactly one set
\* of every round, hence in exactly R sets of the schedule
C28_OncePerRound ==
    Returned =>
        /\ \A k \in 1..Len(rounds) : \A p \in Roster :
              Cardinality(SetsOf(rounds, k, p)) <= 1
        /\ numCourts # 0 /\ Len(players) = 4 * numCourts =>
              /\ Len(rounds) = maxRounds
              /\ \A k \in 1..Len(rounds) : \A p \in Roster :
                    Cardinality(SetsOf(rounds, k, p)) = 1
              /\ \A p \in Roster :
                    Cardinality({pos \in SetPositions(rounds) :
                        p \in SetPlayers(rounds[pos[1]].sets[pos[2]])}) = maxRounds

\* A schedule of several rounds for N = 4*C with several courts, and one
\* with more players than places in which a player sits out a round
C28_Witness ==
    /\ Returned
    /\ numCourts >= 2
    /\ Len(players) = 4 * numCourts
    /\ maxRounds >= 2
    /\ Len(rounds) = maxRounds

C28_WitnessSitsOut ==
    /\ Returned
    /\ Len(rounds) >= 2
    /\ \E p \in Roster : \E k, l \in 1..Len(rounds) :
          SetsOf(rounds, k, p) = {} /\ SetsOf(rounds, l, p) # {}

FourPairs(set) ==
    << <<Team1(set)[1], Team2(set)[1]>>, <<Team1(set)[1], Team2(set)[2]>>,
       <<Team1(set)[2], Team2(set)[1]>>, <<Team1(set)[2], Team2(set)[2]>> >>

\* The elo of player p left by the first k entries of the log, starting from
\* the ratings held before the match
RECURSIVE EloAfter(_, _, _, _)
EloAfter(log, k, p, before) ==
    IF k = 0 THEN before[p].elo
    ELSE IF log[k].player1 = p THEN log[k].updated1.elo
    ELSE IF log[k].player2 = p THEN log[k].updated2.elo
    ELSE EloAfter(log, k - 1, p, before)

\* The updates of the set visited by the step are those of its four pairs
\* with two known names, in order, each computed by updatePlayerRatings from
\* the ratings left by the updates before it
PairsInOrder ==
    LET log == pairLog'
        pairs == SelectSeq(FourPairs(NextSet),
                     LAMBDA pq : Known(playerRatings, pq[1])
                                 /\ Known(playerRatings, pq[2]))
    IN  /\ Len(log) = Len(pairs)
        /\ \A k \in 1..Len(log) :
              /\ <<log[k].player1, log[k].player2>> = pairs[k]
              /\ log[k].before1.elo = EloAfter(log, k - 1, pairs[k][1], playerRatings)
              /\ log[k].before2.elo = EloAfter(log, k - 1, pairs[k][2], playerRatings)
              /\ <<log[k].updated1, log[k].updated2>> =
                     UpdatePlayerRatings(log[k].before1, log[k].before2,
                                         NextSet.teams[1].points,
                                         NextSet.teams[2].points)
        /\ \A p \in DOMAIN playerRatings :
              playerRatings'[p].elo = EloAfter(log, Len(log), p, playerRatings)

\* C27: within one match the four cross-team pairs are processed in the
\* order (t1[0],t2[0]), (t1[0],t2[1]), (t1[1],t2[0]), (t1[1],t2[1]) and each
\* rating change is applied before the next pair is evaluated: a later pair
\* is computed from the ratings left by the earlier pairs of the match, not
\* from the ratings held before the match
C27_PairsInOrder == [][VisitsPlayedSet => PairsInOrder]_vars

\* A match of four known players in which the second and the third pair
\* were computed from a rating that the first pair had changed
C27_Witness ==
    /\ Visited
    /\ Len(pairLog) = 4
    /\ pairLog[2].player1 = pairLog[1].player1
    /\ pairLog[2].before1.elo # pairLog[1].before1.elo
    /\ pairLog[3].player2 = pairLog[1].player2
    /\ pairLog[3].before2.elo # pairLog[1].before2.elo
    /\ pairLog[4].before1.elo # pairLog[3].before1.elo

(* ---------------------------------------------------------------------- *)
(* Claims on the arguments of the two functions                            *)
(* ---------------------------------------------------------------------- *)
\* A step of generateRoundsCore, a step of calculateEloRatings
CoreStep == pc \in {"call", "round", "court"}
ReplayStep == ratingPc \in {"call", "replay"}

\* C21: calculateEloRatings and generateRoundsCore leave their inputs
\* unchanged: db.data.players, db.data.sessions (with the stored order of the
\* sessions) and the caller's roster array are after the call as before
C21_InputsUnchanged ==
    [][/\ CoreStep => players' = players /\ db' = db
       /\ ReplayStep => data' = data]_vars

\* calculateEloRatings has returned for sessions stored in another order
\* than the order of their dates
C21_Witness ==
    /\ ratingPc = "returned"
    /\ replayNo = 1
    /\ Len(data.sessions) >= 2
    /\ sortedSessions # data.sessions

\* generateRoundsCore has returned a schedule for a roster that was not
\* passed in sorted order
C21_WitnessRoster ==
    /\ Returned
    /\ rounds # <<>>
    /\ Len(players) >= 4
    /\ sortedPlayers # players

(* ---------------------------------------------------------------------- *)
(* Claims on the order of the roster                                       *)
(* ---------------------------------------------------------------------- *)
\* C22: the schedule returned by generateRoundsCore does not depend on the
\* order of the input roster: for unique names, a call with the same players
\* in another order returns the identical schedule
C22_RosterOrderIrrelevant ==
    (/\ Returned
     /\ callNo = 2
     /\ players # firstPlayers
     /\ Range(players) = Range(firstPlayers)) => rounds = firstRounds

\* The second call has returned a schedule of several rounds with sets for
\* a roster given in another order, with ratings that differ
C22_Witness ==
    /\ Returned
    /\ callNo = 2
    /\ players # firstPlayers
    /\ Len(players) >= 5
    /\ Len(rounds) >= 2
    /\ \A k \in 1..Len(rounds) : rounds[k].sets # <<>>
    /\ \E p, q \in Roster : EloOf(playerEloMap, p) # EloOf(playerEloMap, q)

(* ---------------------------------------------------------------------- *)
(* Operations on the sessions of the database                              *)
(* ---------------------------------------------------------------------- *)
RECURSIVE ReplayFrom(_, _, _)
\* The three nested forEach loops of calculateEloRatings, from set k on
ReplayFrom(ratings, ss, k) ==
    IF k > Len(ss) THEN ratings
    ELSE ReplayFrom(ReplayedSet(ratings, ss[k]).ratings, ss, k + 1)

\* calculateEloRatings(db)
CalculateEloRatings(d) ==
    RatingTable(ReplayFrom(InitialRatings(d.players),
                           SessionSets(SortSessions(d.sessions)), 1),
                d.players)

\* The db argument generateRounds passes on: the database with the rating
\* lookup and the teams of the played sets it gives
DbOf(d) ==
    [present |-> TRUE,
     ratings |-> PlayerEloMapOf(CalculateEloRatings(d), d.players),
     matches |-> LET played == SelectSeq(SessionSets(d.sessions),
                                         LAMBDA set : ~Unplayed(set))
                 IN  [k \in 1..Len(played) |->
                         [t1 |-> Team1(played[k]), t2 |-> Team2(played[k])]]]

\* setPointsToSet: each find that fails returns with nothing changed
SetPoints(d, sessionId, roundId, setId, player, points) ==
    LET si == FindIndex(d.sessions, LAMBDA x : x.id = sessionId)
    IN  IF si = 0 THEN d
        ELSE
    LET ri == FindIndex(d.sessions[si].rounds, LAMBDA x : x.id = roundId)
    IN  IF ri = 0 THEN d
        ELSE
    LET xi == FindIndex(d.sessions[si].rounds[ri].sets, LAMBDA x : x.id = setId)
    IN  IF xi = 0 THEN d
        ELSE
    LET ti == FindIndex(d.sessions[si].rounds[ri].sets[xi].teams,
                        LAMBDA x : player \in Range(x.team.players))
    IN  IF ti = 0 THEN d
        ELSE [d EXCEPT
                 !.sessions[si].rounds[ri].sets[xi].teams[ti].points = points]

\* The ids, names and points the operations are called with: the ids of the
\* two stored sessions and of no session, of the first round and set and of
\* none, a player of each team of set 1-1 and of none
SessionIds == {<<2025, 3, 28>>, <<2025, 4, 4>>, <<2025, 1, 1>>}
RoundIds == {<<"round", 1>>, <<"round", 9>>}
SetIds == {<<1, 1>>, <<9, 9>>}
PointPlayers == {1, 2, 9}
PointValues == {21}

\* The stored databases: a session of four players and a session of three
\* or of five, each without rounds or with a played round
StoredDbs ==
    {[players |-> DbPlayers,
      sessions |-> << [id |-> <<2025, 3, 28>>, players |-> <<1, 2, 3, 4>>,
                       rounds |-> r1],
                      [id |-> <<2025, 4, 4>>, players |-> ps, rounds |-> r2] >>] :
        r1 \in {<<>>, <<PlayedRound(1, <<1, 3>>, 21, <<2, 4>>, 15)>>},
        r2 \in {<<>>, <<PlayedRound(1, <<1, 2>>, 15, <<3, 4>>, 21)>>},
        ps \in {<<3, 2, 1>>, <<5, 4, 3, 2, 1>>}}

\* The database is loaded and no operation is running
InitSessions ==
    /\ pc = "idle"
    /\ caller = "none"
    /\ session = NoSession
    /\ players = <<>>
    /\ maxRounds = 0
    /\ numCourts = 0
    /\ db = NoDb
    /\ CoreFresh
    /\ RatingsOff
    /\ data \in StoredDbs
    /\ CallerIdle

Idle == pc \in {"idle", "stored"}

\* setPointsToSet(db, sessionId, roundId, setId, player, points)
SetPointsToSet ==
    /\ Idle
    /\ opCount < MaxOps
    /\ \E sessionId \in SessionIds, roundId \in RoundIds, setId \in SetIds,
          player \in PointPlayers, points \in PointValues :
          /\ data' = SetPoints(data, sessionId, roundId, setId, player, points)
          /\ lastOp' = [op |-> "setPointsToSet", id |-> sessionId]
    /\ dataBefore' = data
    /\ opCount' = opCount + 1
    /\ pc' = "idle"
    /\ UNCHANGED <<ratingPc, playerRatings, sortedSessions, setIndex, pairLog,
                   eloRatings, eloMap, rankingInput, enhancedRankings,
                   enhancedAgain, replayNo, firstRatings, firstPlayers,
                   caller, session, players, maxRounds, numCourts, db,
                   sortedPlayers, playerEloMap, teammateFrequency,
                   opponentFrequency, sessionTeammateFrequency,
                   sessionOpponentFrequency, maxPairingFrequency, roundIndex,
                   courtIndex, availablePlayers, sets, rounds, slotLog, callNo,
                   firstRounds>>

\* generateRounds(db, id) up to its call of generateRoundsCore, or up to its
\* return when no session has the id
GenerateRounds ==
    /\ Idle
    /\ opCount < MaxOps
    /\ \E id \in SessionIds :
          /\ lastOp' = [op |-> "generateRounds", id |-> id]
          /\ \E k \in {FindIndex(data.sessions, LAMBDA x : x.id = id)} :
                IF k = 0
                THEN /\ pc' = "idle"
                     /\ UNCHANGED <<caller, session, players, maxRounds,
                                    numCourts, db>>
                ELSE /\ session' = data.sessions[k]
                     /\ players' = session'.players
                     /\ numCourts' = NumCourtsOf(Len(players'))
                     /\ maxRounds' = sessionRounds
                     /\ db' = DbOf(data)
                     /\ caller' = "generateRounds"
                     /\ pc' = "call"
    /\ dataBefore' = data
    /\ opCount' = opCount + 1
    /\ UNCHANGED <<ratingVars, firstPlayers,
                   sortedPlayers, playerEloMap, teammateFrequency,
                   opponentFrequency, sessionTeammateFrequency,
                   sessionOpponentFrequency, maxPairingFrequency, roundIndex,
                   courtIndex, availablePlayers, sets, rounds, slotLog, callNo,
                   firstRounds>>

\* The operations in any order.  generateRounds passes numCourts =
\* floor(N / 4), so no court is skipped here.
NextSessions ==
    \/ SetPointsToSet
    \/ GenerateRounds
    \/ EnterNoCourts
    \/ Enter
    \/ BeginRound
    \/ FillCourt
    \/ EndRound
    \/ Return
    \/ StoreRounds

SpecSessions == InitSessions /\ [][NextSessions]_vars

(* ---------------------------------------------------------------------- *)
(* Claims on generateRounds                                                *)
(* ---------------------------------------------------------------------- *)
\* The session of db.data before the last operation that its id finds
\* (0: no session has the id)
FoundBefore == FindIndex(dataBefore.sessions, LAMBDA x : x.id = lastOp.id)

\* Some set of the rounds has points other than 0
HasPoints(rs) ==
    \E set \in AllSets(rs) : set.teams[1].points # 0 \/ set.teams[2].points # 0

\* C30: generateRounds(db, id) changes only the rounds of session id:
\* db.players, the player list of session id and the players and rounds
\* (with their recorded points) of every other session are unchanged, while
\* the rounds of session id are replaced wholesale, so after any sequence of
\* set-points and generate-rounds operations every set of a freshly
\* regenerated session has points 0; for an unknown id nothing changes
C30_OnlyRoundsReplaced ==
    lastOp.op = "generateRounds" =>
        /\ data.players = dataBefore.players
        /\ Len(data.sessions) = Len(dataBefore.sessions)
        /\ \A k \in 1..Len(data.sessions) :
              /\ data.sessions[k].id = dataBefore.sessions[k].id
              /\ data.sessions[k].players = dataBefore.sessions[k].players
              /\ k # FoundBefore =>
                     data.sessions[k].rounds = dataBefore.sessions[k].rounds
        /\ FoundBefore = 0 => pc = "idle" /\ data = dataBefore
        /\ FoundBefore # 0 /\ pc # "stored" => data = dataBefore
        /\ FoundBefore # 0 /\ pc = "stored" =>
              /\ data.sessions[FoundBefore].rounds = rounds
              /\ ~HasPoints(data.sessions[FoundBefore].rounds)

\* After three operations a session that had recorded points has been
\* regenerated to rounds with sets, while the other session keeps its
\* recorded points
C30_Witness ==
    /\ pc = "stored"
    /\ opCount = MaxOps
    /\ lastOp.op = "generateRounds"
    /\ FoundBefore # 0
    /\ HasPoints(dataBefore.sessions[FoundBefore].rounds)
    /\ AllSets(data.sessions[FoundBefore].rounds) # {}
    /\ \E k \in 1..Len(data.sessions) :
          k # FoundBefore /\ HasPoints(data.sessions[k].rounds)

\* generateRounds has returned for an id that no session has, after points
\* were recorded
C30_WitnessUnknown ==
    /\ pc = "idle"
    /\ lastOp.op = "generateRounds"
    /\ FoundBefore = 0
    /\ opCount >= 2
    /\ \E k \in 1..Len(data.sessions) : HasPoints(data.sessions[k].rounds)

\* Points were recorded in a generated schedule, and a session that is
\* left with fewer than 4 players was regenerated to no rounds
C30_WitnessPointsSet ==
    /\ lastOp.op = "setPointsToSet"
    /\ data # dataBefore
    /\ opCount >= 2

C30_WitnessEmptied ==
    /\ pc = "stored"
    /\ FoundBefore # 0
    /\ HasPoints(dataBefore.sessions[FoundBefore].rounds)
    /\ data.sessions[FoundBefore].rounds = <<>>

====
